---------------------------- MODULE Spec2Model ----------------------------
(***************************************************************************)
(* A model of gtnh-daily-updater: the diff engine, the update workflow,   *)
(* the pack-file merge and the three three-way mergers.                   *)
(***************************************************************************)
EXTENDS Integers, Sequences, FiniteSets, TLC

(***************************************************************************)
(* Bounds of the model.                                                    *)
(***************************************************************************)
\* versions are 1..MaxVer; NoVer stands for Go's empty version string
MaxVer == 2
\* how many update runs follow each other in one behaviour
MaxRuns == 2

NoVer == 0
Versions == 1..MaxVer

\* mod names, in the order slices.Sorted gives them
NameSeq == <<"a", "lwjgl3ify">>
Names == {NameSeq[i] : i \in 1..Len(NameSeq)}

(***************************************************************************)
(* Generic helpers.                                                        *)
(***************************************************************************)
RECURSIVE FlatMap(_, _)
FlatMap(F(_), s) ==
    IF s = <<>> THEN <<>> ELSE F(Head(s)) \o FlatMap(F, Tail(s))

\* slices.Sorted(maps.Keys(m)) for a map keyed by mod name
SortedKeys(m) == SelectSeq(NameSeq, LAMBDA n : n \in DOMAIN m)

Range(s) == {s[i] : i \in 1..Len(s)}

\* delete(m, k) / m[k] = v on a Go map
MapDelete(m, k) == [x \in (DOMAIN m) \ {k} |-> m[x]]
MapPut(m, k, v) == [x \in (DOMAIN m) \cup {k} |-> IF x = k THEN v ELSE m[x]]
EmptyMap == [x \in {} |-> NoVer]

(***************************************************************************)
(* side.Parse and Side.IncludedIn.                                         *)
(***************************************************************************)
ParseSide(s) ==
    CASE s = "both" -> "BOTH"
      [] s = "client" -> "CLIENT"
      [] s = "server" -> "SERVER"
      [] OTHER -> s

IncludedIn(s, installSide) ==
    CASE s \in {"BOTH", "BOTH_JAVA9"} -> TRUE
      [] s \in {"CLIENT", "CLIENT_JAVA9"} -> installSide = "client"
      [] s \in {"SERVER", "SERVER_JAVA9"} -> installSide = "server"
      [] OTHER -> FALSE

(***************************************************************************)
(* diff.Compute and diff.Summary.                                          *)
(***************************************************************************)
Change(n, t, old, new, sd) ==
    [name |-> n, type |-> t, old |-> old, new |-> new, side |-> sd]

\* the Added / Updated / Unchanged comparison against the installed entry
CompareInstalled(mods, n, ver, sd) ==
    IF n \notin DOMAIN mods
    THEN Change(n, "Added", NoVer, ver, sd)
    ELSE IF mods[n].version # ver
         THEN Change(n, "Updated", mods[n].version, ver, sd)
         ELSE Change(n, "Unchanged", mods[n].version, ver, sd)

\* the first loop without the removal of an excluded, installed mod
ManifestChangesSkipsExcluded(mods, sideMode, newMods, excludeSet) ==
    LET F(n) ==
          IF ~IncludedIn(ParseSide(newMods[n].side), sideMode) THEN <<>>
          ELSE IF n \in excludeSet THEN <<>>
               ELSE <<CompareInstalled(mods, n, newMods[n].version, newMods[n].side)>>
    IN FlatMap(F, SortedKeys(newMods))

\* the second loop without the test for a resolved extra
RemovedChangesIgnoresExtras(mods, newMods, extraMods) ==
    LET F(n) ==
          IF n \in DOMAIN newMods THEN <<>>
          ELSE <<Change(n, "Removed", mods[n].version, NoVer, mods[n].side)>>
    IN FlatMap(F, SortedKeys(mods))

\* the third loop with the manifest taking precedence even when excluded
ExtraChangesManifestWins(mods, sideMode, newMods, excludeSet, extraMods) ==
    LET F(n) ==
          IF n \in DOMAIN newMods THEN <<>>
          ELSE IF ~IncludedIn(ParseSide(extraMods[n].side), sideMode) THEN <<>>
          ELSE <<CompareInstalled(mods, n, extraMods[n].version, extraMods[n].side)>>
    IN FlatMap(F, SortedKeys(extraMods))

\* first loop: the manifest's mods
ManifestChanges(mods, sideMode, newMods, excludeSet) ==
    LET F(n) ==
          IF ~IncludedIn(ParseSide(newMods[n].side), sideMode) THEN <<>>
          ELSE IF n \in excludeSet
               THEN IF n \in DOMAIN mods
                    THEN <<Change(n, "Removed", mods[n].version, NoVer, mods[n].side)>>
                    ELSE <<>>
               ELSE <<CompareInstalled(mods, n, newMods[n].version, newMods[n].side)>>
    IN FlatMap(F, SortedKeys(newMods))

\* second loop: installed mods the manifest no longer names
RemovedChanges(mods, newMods, extraMods) ==
    LET F(n) ==
          IF n \in DOMAIN newMods THEN <<>>
          ELSE IF n \in DOMAIN extraMods THEN <<>>
          ELSE <<Change(n, "Removed", mods[n].version, NoVer, mods[n].side)>>
    IN FlatMap(F, SortedKeys(mods))

\* third loop: the resolved extra mods
ExtraChanges(mods, sideMode, newMods, excludeSet, extraMods) ==
    LET F(n) ==
          IF n \in DOMAIN newMods /\ n \notin excludeSet THEN <<>>
          ELSE IF ~IncludedIn(ParseSide(extraMods[n].side), sideMode) THEN <<>>
          ELSE <<CompareInstalled(mods, n, extraMods[n].version, extraMods[n].side)>>
    IN FlatMap(F, SortedKeys(extraMods))

Compute(mods, sideMode, newMods, excludeSet, extraMods) ==
    ManifestChanges(mods, sideMode, newMods, excludeSet)
      \o RemovedChanges(mods, newMods, extraMods)
      \o ExtraChanges(mods, sideMode, newMods, excludeSet, extraMods)

CountType(changes, t) == Cardinality({i \in 1..Len(changes) : changes[i].type = t})

Summary(changes) ==
    [added |-> CountType(changes, "Added"),
     removed |-> CountType(changes, "Removed"),
     updated |-> CountType(changes, "Updated"),
     unchanged |-> CountType(changes, "Unchanged")]

(***************************************************************************)
(* File contents.  A content is a sequence of tokens, each a record: NL is *)
(* the newline byte, Txt(s) the text s of a line without its newline,     *)
(* JDoc(v) the text of a JSON document that decodes to v, and the tokens  *)
(* of a Forge .cfg line (CatOpen, CatClose, KV).                          *)
(***************************************************************************)
NL == [nl |-> TRUE]
Txt(s) == [line |-> s]
JDoc(v) == [json |-> v]
CatOpen(name) == [cat |-> name]
CatClose == [close |-> TRUE]
KV(k, v) == [key |-> k, val |-> v]
Cmt(s) == [cmt |-> s]
\* a line longer than bufio.Scanner's buffer
LongLine == [long |-> TRUE]
Has(tok, f) == f \in DOMAIN tok

Max(x, y) == IF x >= y THEN x ELSE y

\* strings.Split(s, "\n")
RECURSIVE SplitNL(_)
SplitNL(s) ==
    IF \A i \in 1..Len(s) : s[i] # NL THEN <<s>>
    ELSE LET i == CHOOSE k \in 1..Len(s) : s[k] = NL /\ \A h \in 1..(k - 1) : s[h] # NL
         IN <<SubSeq(s, 1, i - 1)>> \o SplitNL(SubSeq(s, i + 1, Len(s)))

\* strings.Join(lines, "\n")
RECURSIVE JoinNL(_)
JoinNL(lines) ==
    IF lines = <<>> THEN <<>>
    ELSE IF Len(lines) = 1 THEN lines[1]
    ELSE lines[1] \o <<NL>> \o JoinNL(Tail(lines))

splitLines(s) ==
    IF s = <<>> THEN <<>>
    ELSE LET l == SplitNL(s)
         IN IF l[Len(l)] = <<>> THEN SubSeq(l, 1, Len(l) - 1) ELSE l

linesEqual(a, b) == Len(a) = Len(b) /\ \A i \in 1..Len(a) : a[i] = b[i]

(***************************************************************************)
(* MergeText: computeLCS, diffLines, mergeLines.                           *)
(***************************************************************************)
computeLCS(a, b) ==
    LET m == Len(a)
        n == Len(b)
        dp[i \in 0..m, j \in 0..n] ==
            IF i = 0 \/ j = 0 THEN 0
            ELSE IF a[i] = b[j] THEN dp[i - 1, j - 1] + 1
            ELSE Max(dp[i - 1, j], dp[i, j - 1])
        back[i \in 0..m, j \in 0..n] ==
            IF i = 0 \/ j = 0 THEN <<>>
            ELSE IF a[i] = b[j] THEN Append(back[i - 1, j - 1], a[i])
            ELSE IF dp[i - 1, j] > dp[i, j - 1] THEN back[i - 1, j]
            ELSE back[i, j - 1]
    IN IF m = 0 \/ n = 0 THEN <<>> ELSE back[m, n]

Edit(s, e, new) == [baseStart |-> s, baseEnd |-> e, newLines |-> new]

\* index (0-based) of the first element of s at or after from that equals x; -1 if none
FirstMatch(s, from, x) ==
    IF \E i \in from..(Len(s) - 1) : s[i + 1] = x
    THEN CHOOSE i \in from..(Len(s) - 1) :
            s[i + 1] = x /\ \A h \in from..(i - 1) : s[h + 1] # x
    ELSE -1

\* the loop of diffLines; ai and bi count the lines consumed, li the LCS lines
RECURSIVE diffLoop(_, _, _, _, _, _)
diffLoop(a, b, lcs, ai, bi, li) ==
    LET rest == IF ai < Len(a) \/ bi < Len(b)
                THEN <<Edit(ai, Len(a), SubSeq(b, bi + 1, Len(b)))>>
                ELSE <<>>
    IN IF li >= Len(lcs) THEN rest
       ELSE LET matchA == FirstMatch(a, ai, lcs[li + 1])
                matchB == FirstMatch(b, bi, lcs[li + 1])
            IN IF matchA < 0 \/ matchB < 0 THEN rest
               ELSE (IF ai < matchA \/ bi < matchB
                     THEN <<Edit(ai, matchA, SubSeq(b, bi + 1, matchB))>>
                     ELSE <<>>)
                    \o diffLoop(a, b, lcs, matchA + 1, matchB + 1, li + 1)

diffLines(a, b) == diffLoop(a, b, computeLCS(a, b), 0, 0, 0)

LineConflict(bi) == [kind |-> "line", at |-> bi + 1]

\* the loop of mergeLines; acc is [result, conflicts]
RECURSIVE mergeLoop(_, _, _, _, _, _, _)
mergeLoop(base, td, od, bi, ti, oi, acc) ==
    IF ~(bi < Len(base) \/ ti < Len(td) \/ oi < Len(od)) THEN acc
    ELSE LET hasT == ti < Len(td) /\ td[ti + 1].baseStart <= bi
             hasO == oi < Len(od) /\ od[oi + 1].baseStart <= bi
         IN IF hasT /\ hasO
            THEN mergeLoop(base, td, od,
                     Max(td[ti + 1].baseEnd, od[oi + 1].baseEnd), ti + 1, oi + 1,
                     [result |-> acc.result \o od[oi + 1].newLines,
                      conflicts |-> IF linesEqual(td[ti + 1].newLines, od[oi + 1].newLines)
                                    THEN acc.conflicts
                                    ELSE Append(acc.conflicts, LineConflict(bi))])
            ELSE IF hasT
            THEN mergeLoop(base, td, od, td[ti + 1].baseEnd, ti + 1, oi,
                     [acc EXCEPT !.result = @ \o td[ti + 1].newLines])
            ELSE IF hasO
            THEN mergeLoop(base, td, od, od[oi + 1].baseEnd, ti, oi + 1,
                     [acc EXCEPT !.result = @ \o od[oi + 1].newLines])
            ELSE IF bi < Len(base)
            THEN mergeLoop(base, td, od, bi + 1, ti, oi,
                     [acc EXCEPT !.result = Append(@, base[bi + 1])])
            ELSE acc

mergeLines(base, theirs, ours) ==
    mergeLoop(base, diffLines(base, theirs), diffLines(base, ours), 0, 0, 0,
              [result |-> <<>>, conflicts |-> <<>>])

Merged(content, conflicts) == [merged |-> content, conflicts |-> conflicts]

MergeText(base, theirs, ours) ==
    LET baseLines == splitLines(base)
        theirsLines == splitLines(theirs)
        oursLines == splitLines(ours)
    IN IF linesEqual(oursLines, baseLines) THEN Merged(theirs, <<>>)
       ELSE IF linesEqual(theirsLines, baseLines) THEN Merged(ours, <<>>)
       ELSE IF linesEqual(oursLines, theirsLines) THEN Merged(ours, <<>>)
       ELSE LET r == mergeLines(baseLines, theirsLines, oursLines)
            IN Merged(JoinNL(r.result), r.conflicts)

(***************************************************************************)
(* MergeJSON: mergeValue and mergeObjects.  A decoded value is a number,   *)
(* null (Go's nil) or an object, a map from keys to values.               *)
(***************************************************************************)
JNull == [t |-> "null", n |-> 0, m |-> <<>>]
JNum(n) == [t |-> "num", n |-> n, m |-> <<>>]
JObj(m) == [t |-> "obj", n |-> 0, m |-> m]
IsMap(v) == v.t = "obj"

\* object keys, in the order the model walks them (Go's map order is unspecified)
KeySeq == <<"k1", "k2">>

KeyConflict(path, why) == [kind |-> "key", at |-> path, why |-> why]

\* the non-object branch of mergeValue
mergeScalar(path, base, theirs, ours) ==
    LET userChanged == base # ours
        packChanged == base # theirs
    IN IF userChanged /\ packChanged /\ theirs # ours
       THEN [has |-> TRUE, val |-> ours, conflicts |-> <<KeyConflict(path, "both changed")>>]
       ELSE IF userChanged
       THEN [has |-> TRUE, val |-> ours, conflicts |-> <<>>]
       ELSE [has |-> TRUE, val |-> theirs, conflicts |-> <<>>]

RECURSIVE mergeValue(_, _, _, _)
RECURSIVE mergeObjects(_, _, _, _)
RECURSIVE mergeKey(_, _, _, _, _)

mergeValue(path, base, theirs, ours) ==
    IF IsMap(base) /\ IsMap(theirs) /\ IsMap(ours)
    THEN mergeObjects(path, base.m, theirs.m, ours.m)
    ELSE mergeScalar(path, base, theirs, ours)

\* an iteration that respects the user's removal of a key whatever the pack
\* did to it
mergeKeyUserRemovalWins(path, base, theirs, ours, k) ==
    LET keyPath == Append(path, k)
        inBase == k \in DOMAIN base
        inTheirs == k \in DOMAIN theirs
        inOurs == k \in DOMAIN ours
        none == [has |-> FALSE, val |-> JNull, conflicts |-> <<>>]
    IN CASE inBase /\ inTheirs /\ inOurs ->
              mergeValue(keyPath, base[k], theirs[k], ours[k])
         [] ~inBase /\ inTheirs /\ ~inOurs ->
              [has |-> TRUE, val |-> theirs[k], conflicts |-> <<>>]
         [] ~inBase /\ ~inTheirs /\ inOurs ->
              [has |-> TRUE, val |-> ours[k], conflicts |-> <<>>]
         [] ~inBase /\ inTheirs /\ inOurs ->
              mergeValue(keyPath, JNull, theirs[k], ours[k])
         [] inBase /\ ~inTheirs /\ inOurs ->
              IF base[k] # ours[k]
              THEN [has |-> TRUE, val |-> ours[k], conflicts |-> <<>>]
              ELSE none
         [] OTHER -> none

\* one iteration of the loop of mergeObjects, for key k
mergeKey(path, base, theirs, ours, k) ==
    LET keyPath == Append(path, k)
        inBase == k \in DOMAIN base
        inTheirs == k \in DOMAIN theirs
        inOurs == k \in DOMAIN ours
        none == [has |-> FALSE, val |-> JNull, conflicts |-> <<>>]
    IN CASE inBase /\ inTheirs /\ inOurs ->
              mergeValue(keyPath, base[k], theirs[k], ours[k])
         [] ~inBase /\ inTheirs /\ ~inOurs ->
              [has |-> TRUE, val |-> theirs[k], conflicts |-> <<>>]
         [] ~inBase /\ ~inTheirs /\ inOurs ->
              [has |-> TRUE, val |-> ours[k], conflicts |-> <<>>]
         [] ~inBase /\ inTheirs /\ inOurs ->
              mergeValue(keyPath, JNull, theirs[k], ours[k])
         [] inBase /\ ~inTheirs /\ inOurs ->
              IF base[k] # ours[k]
              THEN [has |-> TRUE, val |-> ours[k], conflicts |-> <<>>]
              ELSE none
         [] inBase /\ inTheirs /\ ~inOurs ->
              IF base[k] # theirs[k]
              THEN [has |-> TRUE, val |-> theirs[k],
                    conflicts |-> <<KeyConflict(keyPath, "user removed but pack changed")>>]
              ELSE none
         [] OTHER -> none

mergeObjects(path, base, theirs, ours) ==
    LET allKeys == DOMAIN base \cup DOMAIN theirs \cup DOMAIN ours
        rs == [k \in allKeys |-> mergeKey(path, base, theirs, ours, k)]
        kept == {k \in allKeys : rs[k].has}
    IN [has |-> TRUE,
        val |-> JObj([k \in kept |-> rs[k].val]),
        conflicts |-> FlatMap(LAMBDA k : rs[k].conflicts,
                              SelectSeq(KeySeq, LAMBDA k : k \in allKeys))]

\* json.Unmarshal: the content is one JSON document, with or without a final newline
IsJSON(c) == /\ Len(c) \in {1, 2}
             /\ Has(c[1], "json")
             /\ (Len(c) = 2 => c[2] = NL)
Unmarshal(c) == c[1].json
\* json.MarshalIndent and the newline MergeJSON appends
MarshalLn(v) == <<JDoc(v), NL>>

MergeJSON(base, theirs, ours) ==
    IF ~IsJSON(base) \/ ~IsJSON(theirs) \/ ~IsJSON(ours)
    THEN MergeText(base, theirs, ours)
    ELSE LET r == mergeValue(<<>>, Unmarshal(base), Unmarshal(theirs), Unmarshal(ours))
         IN Merged(MarshalLn(r.val), r.conflicts)

(***************************************************************************)
(* Forge .cfg files: ParseCfg, ToMap, MergeCfg, writeCfg.                  *)
(***************************************************************************)
\* category names, in string order
CatSeq == <<"c1", "c2">>

\* what ParseCfg sees in a trimmed line
LineKind(line) ==
    IF line = <<>> THEN "blank"
    ELSE IF Has(line[1], "cmt") THEN "comment"
    ELSE IF Has(line[1], "cat") THEN "open"
    ELSE IF Has(line[1], "close") THEN "close"
    ELSE IF Has(line[1], "key") THEN "kv"
    ELSE "other"

EmptyCfg == [preamble |-> <<>>, categories |-> <<>>]

\* one iteration of the scanner loop of ParseCfg; cur is the index of the
\* current category, 0 for none
ParseLine(st, line) ==
    LET kind == LineKind(line)
    IN IF st.cur = 0
       THEN IF kind \in {"blank", "comment"}
            THEN IF st.depth = 0 THEN [st EXCEPT !.pending = Append(@, line)] ELSE st
            ELSE IF kind = "open"
            THEN LET cat == [comments |-> st.pending, name |-> line[1].cat, entries |-> <<>>]
                 IN [cfg |-> IF st.depth = 0
                             THEN [st.cfg EXCEPT !.categories = Append(@, cat)]
                             ELSE st.cfg,
                     cur |-> IF st.depth = 0 THEN Len(st.cfg.categories) + 1 ELSE st.cur,
                     pending |-> <<>>,
                     depth |-> st.depth + 1]
            ELSE [st EXCEPT !.cfg.preamble = @ \o st.pending \o <<line>>,
                            !.pending = <<>>]
       ELSE IF kind = "close"
            THEN [st EXCEPT !.depth = @ - 1,
                            !.cur = IF st.depth - 1 = 0 THEN 0 ELSE @]
            ELSE IF kind = "open"
            THEN [st EXCEPT !.depth = @ + 1]
            ELSE IF kind \in {"blank", "comment"}
            THEN [st EXCEPT !.pending = Append(@, line)]
            ELSE IF kind = "kv"
            THEN [st EXCEPT
                    !.cfg.categories[st.cur].entries =
                        Append(@, [comments |-> st.pending,
                                   key |-> line[1].key, value |-> line[1].val]),
                    !.pending = <<>>]
            ELSE [st EXCEPT !.pending = Append(@, line)]

RECURSIVE ParseLines(_, _)
ParseLines(st, lines) ==
    IF lines = <<>> THEN st ELSE ParseLines(ParseLine(st, Head(lines)), Tail(lines))

\* scanner.Err(): a line longer than the scanner's buffer
ScanFails(c) == \E i \in 1..Len(c) : Has(c[i], "long")

ParseCfg(c) ==
    ParseLines([cfg |-> EmptyCfg, cur |-> 0, pending |-> <<>>, depth |-> 0],
               splitLines(c)).cfg

\* CfgFile.ToMap: category.key -> value, a later duplicate replacing an earlier one
ToMap(cfg) ==
    LET keys == {<<cfg.categories[i].name, cfg.categories[i].entries[j].key>> :
                    <<i, j>> \in {p \in (1..Len(cfg.categories)) \X (1..8) :
                                    p[2] <= Len(cfg.categories[p[1]].entries)}}
        last(k) == CHOOSE p \in (1..Len(cfg.categories)) \X (1..8) :
                      /\ p[2] <= Len(cfg.categories[p[1]].entries)
                      /\ <<cfg.categories[p[1]].name, cfg.categories[p[1]].entries[p[2]].key>> = k
                      /\ \A q \in (1..Len(cfg.categories)) \X (1..8) :
                            (/\ q[2] <= Len(cfg.categories[q[1]].entries)
                             /\ <<cfg.categories[q[1]].name,
                                  cfg.categories[q[1]].entries[q[2]].key>> = k)
                            => (q[1] < p[1] \/ (q[1] = p[1] /\ q[2] <= p[2]))
    IN [k \in keys |-> cfg.categories[last(k)[1]].entries[last(k)[2]].value]

CfgConflict(fullKey, user, pack) ==
    [kind |-> "cfg", at |-> fullKey, user |-> user, pack |-> pack]

\* the body of the entry loop of MergeCfg: the merged value of one entry of theirs
MergeEntryValue(fullKey, theirsVal, baseMap, oursMap) ==
    IF fullKey \notin DOMAIN baseMap THEN theirsVal
    ELSE IF fullKey \notin DOMAIN oursMap THEN theirsVal
    ELSE IF oursMap[fullKey] # baseMap[fullKey] THEN oursMap[fullKey]
    ELSE theirsVal

MergeEntryConflict(fullKey, theirsVal, baseMap, oursMap) ==
    IF /\ fullKey \in DOMAIN baseMap
       /\ fullKey \in DOMAIN oursMap
       /\ oursMap[fullKey] # baseMap[fullKey]
       /\ theirsVal # baseMap[fullKey]
       /\ oursMap[fullKey] # theirsVal
    THEN <<CfgConflict(fullKey, oursMap[fullKey], theirsVal)>>
    ELSE <<>>

\* sort.Slice(cats, by Name)
SortCats(cats) ==
    FlatMap(LAMBDA n : SelectSeq(cats, LAMBDA c : c.name = n), CatSeq)

\* a writer that emits the categories in the order of the file
writeCfgInFileOrder(cfg) ==
    LET ln(line) == line \o <<NL>>
        entry(e) == FlatMap(ln, e.comments) \o <<KV(e.key, e.value), NL>>
        cat(c) == FlatMap(ln, c.comments) \o <<CatOpen(c.name), NL>>
                    \o FlatMap(entry, c.entries) \o <<CatClose, NL, NL>>
    IN FlatMap(ln, cfg.preamble) \o FlatMap(cat, cfg.categories)

writeCfg(cfg) ==
    LET ln(line) == line \o <<NL>>
        entry(e) == FlatMap(ln, e.comments) \o <<KV(e.key, e.value), NL>>
        cat(c) == FlatMap(ln, c.comments) \o <<CatOpen(c.name), NL>>
                    \o FlatMap(entry, c.entries) \o <<CatClose, NL, NL>>
    IN FlatMap(ln, cfg.preamble) \o FlatMap(cat, SortCats(cfg.categories))

MergeCfg(base, theirs, ours) ==
    IF ScanFails(base) \/ ScanFails(theirs) \/ ScanFails(ours)
    THEN MergeText(base, theirs, ours)
    ELSE LET theirsCfg == ParseCfg(theirs)
             baseMap == ToMap(ParseCfg(base))
             theirsMap == ToMap(theirsCfg)
             oursMap == ToMap(ParseCfg(ours))
             fk(c, e) == <<c.name, e.key>>
             cats ==
               [ci \in 1..Len(theirsCfg.categories) |->
                  LET c == theirsCfg.categories[ci]
                  IN [c EXCEPT !.entries =
                        [ei \in 1..Len(c.entries) |->
                           [c.entries[ei] EXCEPT !.value =
                              MergeEntryValue(fk(c, c.entries[ei]),
                                  theirsMap[fk(c, c.entries[ei])], baseMap, oursMap)]]]]
             conflicts ==
               FlatMap(LAMBDA c :
                         FlatMap(LAMBDA e :
                                   MergeEntryConflict(fk(c, e), theirsMap[fk(c, e)],
                                                      baseMap, oursMap),
                                 c.entries),
                       theirsCfg.categories)
         IN Merged(writeCfg([theirsCfg EXCEPT !.categories = cats]), conflicts)

(***************************************************************************)
(* The package index (assets.AssetsDB), jar filenames and the mods         *)
(* directory.  A jar filename is a record: the mod and version it carries  *)
(* and where the name came from (the index, Maven, a GitHub release asset, *)
(* the base name of a direct URL).                                         *)
(***************************************************************************)
File(n, v, k) == [n |-> n, v |-> v, k |-> k]
DbFilename(n, v) == File(n, v, "db")
\* maven.MavenFilename / the filename of maven.DownloadURL
MavenFilename(n, v) == File(n, v, "maven")

\* every version a jar can carry: the manifest's and one newer than all of them
VerSeq == [i \in 1..(MaxVer + 1) |-> i]
KindSeq == <<"db", "gh", "maven", "url">>
\* all filenames, in the lexical order filepath.WalkDir visits them
FileSeq ==
    FlatMap(LAMBDA n :
              FlatMap(LAMBDA v : [i \in 1..Len(KindSeq) |-> File(n, v, KindSeq[i])], VerSeq),
            NameSeq)

LookupMod(db, n) == n \in DOMAIN db
IsGTNH(db, n) == LookupMod(db, n) /\ db[n].source = ""

FilenameMatch(n, v, sd) == [modName |-> n, version |-> v, side |-> sd]

\* BuildFilenameIndex(db)[fn]
FilenameMatches(db, fn) ==
    FlatMap(LAMBDA n :
              FlatMap(LAMBDA v :
                        (IF DbFilename(n, v.tag) = fn
                         THEN <<FilenameMatch(n, v.tag, db[n].side)>> ELSE <<>>)
                        \o (IF /\ db[n].source = ""
                               /\ MavenFilename(n, v.tag) # DbFilename(n, v.tag)
                               /\ MavenFilename(n, v.tag) = fn
                            THEN <<FilenameMatch(n, v.tag, db[n].side)>> ELSE <<>>),
                      db[n].versions),
            SortedKeys(db))

\* the first stable version of an entry whose versions are sorted newest first
FirstStable(versions) ==
    LET st == SelectSeq(versions, LAMBDA v : ~v.pre)
    IN IF st = <<>> THEN NoVer ELSE st[1].tag

\* db.LatestVersion; NoVer stands for the error
LatestVersion(db, n) ==
    IF ~LookupMod(db, n) THEN NoVer
    ELSE IF db[n].latest # NoVer THEN db[n].latest
    ELSE FirstStable(db[n].versions)

\* db.LatestNonPreVersion; NoVer stands for the error
LatestNonPreVersion(db, n) ==
    IF ~LookupMod(db, n) THEN NoVer ELSE FirstStable(db[n].versions)

HasVersion(db, n, v) ==
    LookupMod(db, n) /\ \E i \in 1..Len(db[n].versions) : db[n].versions[i].tag = v

Download(n, fn, via, api) == [modName |-> n, filename |-> fn, via |-> via, api |-> api]
NoDownload == [ok |-> FALSE, dl |-> Download("", File("", NoVer, ""), "", FALSE)]

\* strings.HasPrefix(v.DownloadURL, "https://api.github.com/"): the index
\* gives GTNewHorizons' own mods the API URL of their release asset, and an
\* entry hosted elsewhere the URL of its host
IsAPIURL(db, n) == db[n].source = ""

\* the kind of URL v.DownloadURL is
DownloadURL(db, n) == IF IsAPIURL(db, n) THEN "api" ELSE "elsewhere"

\* db.ResolveDownload: the browser URL of an API entry, else the download
\* URL; the download it returns is not flagged, isAPI is its third result
ResolveDownload(db, n, v) ==
    IF HasVersion(db, n, v)
    THEN [ok |-> TRUE,
          dl |-> Download(n, DbFilename(n, v),
                          IF IsAPIURL(db, n) THEN "browser" ELSE DownloadURL(db, n), FALSE),
          isAPI |-> IsAPIURL(db, n)]
    ELSE [ok |-> FALSE, dl |-> NoDownload.dl, isAPI |-> FALSE]

\* db.ResolveDownloadWithAuth returns v.DownloadURL whatever it is; the flag
\* is the one resolveModDownload and resolveExtraMod put on its result
ResolveDownloadWithAuth(db, n, v) ==
    IF HasVersion(db, n, v)
    THEN [ok |-> TRUE, dl |-> Download(n, DbFilename(n, v), DownloadURL(db, n), TRUE)]
    ELSE NoDownload

(***************************************************************************)
(* scanInstalledMods, pickBestMatch, refreshTrackedMods.                   *)
(***************************************************************************)
InstalledMod(v, fn, sd) == [version |-> v, filename |-> fn, side |-> sd]

pickBestMatch(matches, manifestMods) ==
    IF Len(matches) = 1 THEN matches[1]
    ELSE LET inM == SelectSeq(matches, LAMBDA m : m.modName \in DOMAIN manifestMods)
         IN IF inM # <<>> THEN inM[1] ELSE matches[1]

\* the WalkDir callback of scanInstalledMods, for the file fn
ScanFile(mods, fn, db, manifestMods, excludeSet, sideMode) ==
    LET matches == FilenameMatches(db, fn)
    IN IF matches = <<>> THEN mods
       ELSE LET match == pickBestMatch(matches, manifestMods)
                modSide == IF match.modName \in DOMAIN manifestMods
                           THEN manifestMods[match.modName].side
                           ELSE match.side
            IN IF match.modName \in excludeSet THEN mods
               ELSE IF ~IncludedIn(ParseSide(modSide), sideMode) THEN mods
               ELSE MapPut(mods, match.modName, InstalledMod(match.version, fn, modSide))

RECURSIVE ScanFiles(_, _, _, _, _, _)
ScanFiles(mods, fns, db, manifestMods, excludeSet, sideMode) ==
    IF fns = <<>> THEN mods
    ELSE ScanFiles(ScanFile(mods, Head(fns), db, manifestMods, excludeSet, sideMode),
                   Tail(fns), db, manifestMods, excludeSet, sideMode)

NoFile == File("", NoVer, "")
NoMods == [n \in {} |-> InstalledMod(NoVer, NoFile, "")]

\* the jars filepath.WalkDir(modsDir) hands to the callback, by base name:
\* the walk descends into a subdirectory (the callback returns nil for it),
\* here "1.7.10", which sorts before every jar of the top level
WalkDir(top, sub) ==
    SelectSeq(FileSeq, LAMBDA f : f \in sub) \o SelectSeq(FileSeq, LAMBDA f : f \in top)

\* listTopLevelJarFiles: the subdirectory is skipped
listTopLevelJarFiles(top, sub) == top

scanInstalledMods(top, sub, db, manifestMods, excludeSet, sideMode) ==
    ScanFiles(NoMods, WalkDir(top, sub), db, manifestMods, excludeSet, sideMode)

\* a rescan that keeps what the scan identified and nothing else
refreshTrackedModsScanOnly(stateMods, mode, db, manifestMods, top, sub) ==
    scanInstalledMods(top, sub, db, manifestMods, {}, mode)

\* the mods map refreshTrackedMods leaves in state.Mods
refreshTrackedMods(stateMods, mode, db, manifestMods, top, sub) ==
    LET scanned == scanInstalledMods(top, sub, db, manifestMods, {}, mode)
        diskFiles == listTopLevelJarFiles(top, sub)
        kept == {n \in DOMAIN stateMods :
                    /\ n \notin DOMAIN scanned
                    /\ stateMods[n].filename # NoFile
                    /\ stateMods[n].filename \in diskFiles}
    IN [n \in DOMAIN scanned \cup kept |->
          IF n \in DOMAIN scanned THEN scanned[n] ELSE stateMods[n]]

(***************************************************************************)
(* resolveExtraMod, resolveConfiguredExtras, resolveLatestVersions and     *)
(* resolveModDownload.  net is what the network answers: the newest stable *)
(* version Maven and GitHub report for a mod, the release a GitHub extra   *)
(* source resolves to; NoVer stands for a failed request.                  *)
(***************************************************************************)
ExtraSpec(v, src, sd) == [version |-> v, source |-> src, side |-> sd]
ResolvedExtraMod(v, sd) == [version |-> v, side |-> sd]

resolveExtraMod(name, spec, db, token, latest, net) ==
    LET modSide == IF spec.side = "" THEN "BOTH" ELSE spec.side
        fail == [ok |-> FALSE, resolved |-> ResolvedExtraMod(NoVer, ""),
                 dl |-> NoDownload.dl]
    IN CASE spec.source = "" ->
              LET version == IF spec.version = NoVer \/ latest
                             THEN (IF latest THEN LatestNonPreVersion(db, name)
                                   ELSE LatestVersion(db, name))
                             ELSE spec.version
                  pub == ResolveDownload(db, name, version)
              IN IF version = NoVer THEN fail
                 ELSE IF IsGTNH(db, name)
                 THEN [ok |-> TRUE, resolved |-> ResolvedExtraMod(version, modSide),
                       dl |-> Download(name, MavenFilename(name, version), "maven", FALSE)]
                 ELSE IF ~pub.ok THEN fail
                 ELSE [ok |-> TRUE, resolved |-> ResolvedExtraMod(version, modSide),
                       dl |-> IF pub.isAPI /\ token
                              THEN ResolveDownloadWithAuth(db, name, version).dl
                              ELSE [pub.dl EXCEPT !.api = pub.isAPI]]
         [] spec.source = "github" ->
              IF net.release[name] = NoVer THEN fail
              ELSE [ok |-> TRUE,
                    resolved |-> ResolvedExtraMod(net.release[name], modSide),
                    dl |-> Download(name, File(name, net.release[name], "gh"), "gh", token)]
         [] OTHER ->
              [ok |-> TRUE, resolved |-> ResolvedExtraMod(spec.version, modSide),
               dl |-> Download(name, File(name, spec.version, "url"), "url", FALSE)]

\* ok is FALSE when at least one extra could not be resolved
resolveConfiguredExtras(extraMods, db, token, latest, net) ==
    LET r == [n \in DOMAIN extraMods |->
                resolveExtraMod(n, extraMods[n], db, token, latest, net)]
    IN [ok |-> \A n \in DOMAIN extraMods : r[n].ok,
        unresolved |-> SelectSeq(SortedKeys(extraMods), LAMBDA n : ~r[n].ok),
        resolvedExtras |-> [n \in DOMAIN extraMods |-> r[n].resolved],
        extraDownloads |-> [n \in DOMAIN extraMods |-> r[n].dl]]

\* Unchanged becomes Updated when an override changes the target version
Override(c, v) ==
    [c EXCEPT !.new = v, !.type = IF c.type = "Unchanged" THEN "Updated" ELSE @]

\* the passes skipping the extras only
LatestSkipsExtrasOnly(c, extraDownloads) == c.name \in DOMAIN extraDownloads

LatestSkips(c, extraDownloads) == c.type = "Removed" \/ c.name \in DOMAIN extraDownloads

LatestPass1(db, c, extraDownloads) ==
    IF LatestSkips(c, extraDownloads) THEN c
    ELSE IF LatestNonPreVersion(db, c.name) = NoVer THEN c
    ELSE IF LatestNonPreVersion(db, c.name) # c.new
    THEN Override(c, LatestNonPreVersion(db, c.name))
    ELSE c

LatestPass2(db, c, extraDownloads, net) ==
    IF LatestSkips(c, extraDownloads) \/ ~IsGTNH(db, c.name) THEN c
    ELSE IF net.maven[c.name] = NoVer THEN c
    ELSE IF net.maven[c.name] > c.new THEN Override(c, net.maven[c.name])
    ELSE c

\* whether pass 3 takes the GitHub release for the change c
LatestPass3Hit(db, c, extraDownloads, token, net) ==
    /\ token
    /\ ~LatestSkips(c, extraDownloads)
    /\ IsGTNH(db, c.name)
    /\ net.github[c.name] # NoVer
    /\ net.github[c.name] > c.new

\* no normalisation after the passes
NormalizeNothing(c) == c

Normalize(c) ==
    IF c.type = "Updated" /\ c.old = c.new THEN [c EXCEPT !.type = "Unchanged"] ELSE c

resolveLatestVersions(db, changes, extraDownloads, token, net) ==
    LET p2 == [i \in 1..Len(changes) |->
                 LatestPass2(db, LatestPass1(db, changes[i], extraDownloads),
                             extraDownloads, net)]
        hits == {i \in 1..Len(changes) : LatestPass3Hit(db, p2[i], extraDownloads, token, net)}
        p3 == [i \in 1..Len(changes) |->
                 IF i \in hits THEN Override(p2[i], net.github[p2[i].name]) ELSE p2[i]]
    IN [changes |-> [i \in 1..Len(changes) |-> Normalize(p3[i])],
        latestDownloads |->
            [n \in {p2[i].name : i \in hits} |->
               Download(n, File(n, net.github[n], "gh"), "gh", TRUE)]]

resolveModDownload(db, modName, version, token, extraDownloads, latestDownloads) ==
    IF modName \in DOMAIN extraDownloads
    THEN [ok |-> TRUE, dl |-> extraDownloads[modName]]
    ELSE IF modName \in DOMAIN latestDownloads
    THEN [ok |-> TRUE, dl |-> latestDownloads[modName]]
    ELSE IF token /\ ResolveDownloadWithAuth(db, modName, version).ok
    THEN ResolveDownloadWithAuth(db, modName, version)
    ELSE IF ResolveDownload(db, modName, version).ok
    THEN [ok |-> TRUE, dl |-> ResolveDownload(db, modName, version).dl]
    ELSE IF IsGTNH(db, modName)
    THEN [ok |-> TRUE,
          dl |-> Download(modName, MavenFilename(modName, version), "maven", FALSE)]
    ELSE NoDownload

selectDownloadChanges(changes) ==
    SelectSeq(changes, LAMBDA c : c.type \in {"Added", "Updated"})

\* a resolution that drops the changes it cannot resolve and goes on
resolveDownloadsDroppingUnresolved(needsDownload, db, token, extraDownloads, latestDownloads) ==
    LET r(c) == resolveModDownload(db, c.name, c.new, token, extraDownloads, latestDownloads)
    IN [ok |-> TRUE,
        downloads |-> FlatMap(LAMBDA c : IF r(c).ok THEN <<r(c).dl>> ELSE <<>>,
                              needsDownload)]

resolveDownloadsForChanges(needsDownload, db, token, extraDownloads, latestDownloads) ==
    LET r(c) == resolveModDownload(db, c.name, c.new, token, extraDownloads, latestDownloads)
    IN [ok |-> \A i \in 1..Len(needsDownload) : r(needsDownload[i]).ok,
        downloads |-> FlatMap(LAMBDA c : IF r(c).ok THEN <<r(c).dl>> ELSE <<>>,
                              needsDownload)]

\* the jars removeOutdatedJars deletes for the first k changes
JarsToRemove(changes, installedMods, k) ==
    {installedMods[changes[i].name].filename :
        i \in {j \in 1..k : /\ changes[j].type \in {"Removed", "Updated"}
                            /\ changes[j].name \in DOMAIN installedMods
                            /\ installedMods[changes[j].name].filename # NoFile}}

NeedsUpdate(name) == name = "lwjgl3ify"

(***************************************************************************)
(* The pack-file merge: mergeFile, hashBytes, lookupBaseHash, MergeConfigs.*)
(* A directory is a map from relative path to content.                     *)
(***************************************************************************)
\* the pack's files, in the order filepath.WalkDir visits them
PathSeq == <<"config/a.cfg", "config/b.json", "readme.txt">>
Paths == {PathSeq[i] : i \in 1..Len(PathSeq)}

\* strings.ToLower(filepath.Ext(relPath))
Ext(path) ==
    CASE path = "config/a.cfg" -> ".cfg"
      [] path = "config/b.json" -> ".json"
      [] OTHER -> ".txt"

\* relPath without its config/ prefix, the key older versions tracked it under
Legacy(path) ==
    CASE path = "config/a.cfg" -> "a.cfg"
      [] path = "config/b.json" -> "b.json"
      [] OTHER -> path

HasConfigPrefix(path) == Legacy(path) # path

\* sha256 of a content, taken as collision free
hashBytes(content) == <<"sha256", content>>

\* a []byte that may be nil
NoBase == [nil |-> TRUE, content |-> <<>>]
Bytes(c) == [nil |-> FALSE, content |-> c]

\* mergeFile taking the pack's content when there is no base content
mergeFileNoBaseTakesPack(relPath, base, theirs, ours) ==
    IF base.nil
    THEN Merged(theirs, <<>>)
    ELSE CASE Ext(relPath) = ".cfg" -> MergeCfg(base.content, theirs, ours)
           [] Ext(relPath) = ".json" -> MergeJSON(base.content, theirs, ours)
           [] OTHER -> MergeText(base.content, theirs, ours)

mergeFile(relPath, base, theirs, ours) ==
    IF base.nil
    THEN Merged(<<>>, <<[kind |-> "nobase"]>>)
    ELSE CASE Ext(relPath) = ".cfg" -> MergeCfg(base.content, theirs, ours)
           [] Ext(relPath) = ".json" -> MergeJSON(base.content, theirs, ours)
           [] OTHER -> MergeText(base.content, theirs, ours)

lookupBaseHash(oldHashes, relPath) ==
    IF relPath \in DOMAIN oldHashes
    THEN [ok |-> TRUE, hash |-> oldHashes[relPath]]
    ELSE IF HasConfigPrefix(relPath) /\ Legacy(relPath) \in DOMAIN oldHashes
    THEN [ok |-> TRUE, hash |-> oldHashes[Legacy(relPath)]]
    ELSE [ok |-> FALSE, hash |-> <<>>]

\* what the WalkDir callback of MergeConfigs decides for one file of the new
\* pack: whether it writes, the content it writes, and whether the file is a
\* conflict (the write then goes to <path>.packnew)
\* the end of the callback, after mergeFile returned r
MergeDecision(r, newContent) ==
    IF Len(r.conflicts) > 0
    THEN [write |-> TRUE, content |-> newContent, kind |-> "conflict", conflict |-> TRUE]
    ELSE [write |-> TRUE, content |-> r.merged, kind |-> "merged", conflict |-> FALSE]

\* the decision with the row of the untouched user file read as "keep"
FileDecisionKeepsUntouched(relPath, newContent, gameFiles, oldHashes, oldPack) ==
    LET base == lookupBaseHash(oldHashes, relPath)
        userExists == relPath \in DOMAIN gameFiles
        put(kind) == [write |-> TRUE, content |-> newContent,
                      kind |-> kind, conflict |-> FALSE]
        keep == [write |-> FALSE, content |-> newContent,
                 kind |-> "kept", conflict |-> FALSE]
    IN IF ~base.ok THEN put("new")
       ELSE IF ~userExists THEN put("restored")
       ELSE IF hashBytes(gameFiles[relPath]) = base.hash THEN keep
       ELSE IF hashBytes(newContent) = base.hash THEN keep
       ELSE IF hashBytes(gameFiles[relPath]) = hashBytes(newContent) THEN keep
       ELSE MergeDecision(mergeFile(relPath,
                                    IF oldPack.ok /\ relPath \in DOMAIN oldPack.files
                                    THEN Bytes(oldPack.files[relPath]) ELSE NoBase,
                                    newContent, gameFiles[relPath]),
                          newContent)

FileDecision(relPath, newContent, gameFiles, oldHashes, oldPack) ==
    LET base == lookupBaseHash(oldHashes, relPath)
        userExists == relPath \in DOMAIN gameFiles
        put(kind) == [write |-> TRUE, content |-> newContent,
                      kind |-> kind, conflict |-> FALSE]
        keep == [write |-> FALSE, content |-> newContent,
                 kind |-> "kept", conflict |-> FALSE]
    IN IF ~base.ok THEN put("new")
       ELSE IF ~userExists THEN put("restored")
       ELSE IF hashBytes(gameFiles[relPath]) = base.hash THEN put("updated")
       ELSE IF hashBytes(newContent) = base.hash THEN keep
       ELSE IF hashBytes(gameFiles[relPath]) = hashBytes(newContent) THEN keep
       ELSE MergeDecision(mergeFile(relPath,
                                    IF oldPack.ok /\ relPath \in DOMAIN oldPack.files
                                    THEN Bytes(oldPack.files[relPath]) ELSE NoBase,
                                    newContent, gameFiles[relPath]),
                          newContent)

\* files are the game directory's files, packnew the <path>.packnew files in it
MergeAcc(files, packnew, hashes, conflictFiles, err) ==
    [files |-> files, packnew |-> packnew, newHashes |-> hashes,
     conflictFiles |-> conflictFiles, err |-> err]

\* WalkFile with the pack's content of a conflicting file written over the
\* user's file
WalkFileOverwrites(acc, p, d, hashes, failed) ==
    IF d.write /\ failed
    THEN MergeAcc(acc.files, acc.packnew, hashes, acc.conflictFiles, TRUE)
    ELSE MergeAcc(IF d.write THEN MapPut(acc.files, p, d.content) ELSE acc.files,
                  acc.packnew, hashes,
                  IF d.conflict THEN Append(acc.conflictFiles, p) ELSE acc.conflictFiles,
                  FALSE)

\* WalkFile recording the hash of what is in the game directory afterwards
\* instead of the new pack's hash
WalkFileHashesDisk(acc, p, d, hashes, failed) ==
    IF d.write /\ failed
    THEN MergeAcc(acc.files, acc.packnew, hashes, acc.conflictFiles, TRUE)
    ELSE MergeAcc(IF d.write /\ ~d.conflict
                  THEN MapPut(acc.files, p, d.content) ELSE acc.files,
                  IF d.write /\ d.conflict
                  THEN MapPut(acc.packnew, p, d.content) ELSE acc.packnew,
                  MapPut(acc.newHashes, p,
                         hashBytes(IF d.write /\ ~d.conflict THEN d.content
                                   ELSE acc.files[p])),
                  IF d.conflict THEN Append(acc.conflictFiles, p) ELSE acc.conflictFiles,
                  FALSE)

\* what the callback does with its decision d for the file p: new_hashes
\* gets the new pack's hash before the write, and a failing write ends the walk
WalkFile(acc, p, d, hashes, failed) ==
    IF d.write /\ failed
    THEN MergeAcc(acc.files, acc.packnew, hashes, acc.conflictFiles, TRUE)
    ELSE MergeAcc(IF d.write /\ ~d.conflict
                  THEN MapPut(acc.files, p, d.content) ELSE acc.files,
                  IF d.write /\ d.conflict
                  THEN MapPut(acc.packnew, p, d.content) ELSE acc.packnew,
                  hashes,
                  IF d.conflict THEN Append(acc.conflictFiles, p) ELSE acc.conflictFiles,
                  FALSE)

\* the walk over the new pack; the write of the file at position failAt fails
\* (0: every write succeeds); pos is the position of Head(paths)
RECURSIVE MergeWalk(_, _, _, _, _, _, _)
MergeWalk(acc, paths, pos, newPack, oldHashes, oldPack, failAt) ==
    IF paths = <<>> \/ acc.err THEN acc
    ELSE MergeWalk(WalkFile(acc, Head(paths),
                            FileDecision(Head(paths), newPack[Head(paths)], acc.files,
                                         oldHashes, oldPack),
                            MapPut(acc.newHashes, Head(paths),
                                   hashBytes(newPack[Head(paths)])),
                            pos = failAt),
                   Tail(paths), pos + 1, newPack, oldHashes, oldPack, failAt)

\* MergeConfigs: newPack.ok and oldPack.ok tell whether each pack could be
\* downloaded and extracted
MergeConfigs(gameFiles, packnew, oldHashes, oldPack, newPack, failAt) ==
    IF ~newPack.ok
    THEN MergeAcc(gameFiles, packnew, <<>>, <<>>, TRUE)
    ELSE MergeWalk(MergeAcc(gameFiles, packnew, <<>>, <<>>, FALSE),
                   SelectSeq(PathSeq, LAMBDA p : p \in DOMAIN newPack.files), 1,
                   newPack.files, oldHashes, oldPack, failAt)

(***************************************************************************)
(* Bounded inputs of the three mergers.                                    *)
(***************************************************************************)
\* longest file, in lines, the mergers are run on
MaxLines == 3

SeqsUpTo(S, n) == UNION {[1..k -> S] : k \in 0..n}

\* a text file with the given lines, each ended by a newline
TextOf(lines) == FlatMap(LAMBDA x : <<Txt(x), NL>>, lines)

TextBases == {TextOf(l) : l \in {<<"a", "b", "c">>, <<"a", "b">>, <<>>}}
TextTheirs == {TextOf(l) : l \in SeqsUpTo({"a", "b", "c", "X"}, MaxLines)}
TextOurs == {TextOf(l) : l \in SeqsUpTo({"a", "b", "c", "Y"}, MaxLines)}

\* a JSON document with the object whose keys are those of KeySeq that vs
\* gives a value other than "absent"
Absent == [t |-> "absent", n |-> 0, m |-> <<>>]
JsonOf(vs) == <<JDoc(JObj([k \in {x \in DOMAIN vs : vs[x] # Absent} |-> vs[k]])), NL>>
JsonDocs(V1, V2) == {JsonOf([k1 |-> v1, k2 |-> v2]) : v1 \in V1, v2 \in V2}

Nested(n) == JObj([k1 |-> JNum(n)])
JsonBases == JsonDocs({Absent, JNum(1), Nested(1)}, {Absent, JNum(1)})
JsonTheirs == JsonDocs({Absent, JNum(1), JNum(2), Nested(1), Nested(2)},
                       {Absent, JNum(1), JNum(2)})
JsonOurs == JsonDocs({Absent, JNum(1), JNum(3), JNull, Nested(1), Nested(3)},
                     {Absent, JNum(1), JNum(3)})

\* a .cfg file with the category c1 holding the keys k and j (0: no such key)
CfgOf(k, j) ==
    <<CatOpen("c1"), NL>>
      \o (IF k = 0 THEN <<>> ELSE <<KV("k", k), NL>>)
      \o (IF j = 0 THEN <<>> ELSE <<KV("j", j), NL>>)
      \o <<CatClose, NL>>
CfgDocs(V) == {CfgOf(k, j) : k \in V, j \in V}
\* a .cfg file with a preamble, a comment before an entry, a nested category
\* and a second category
CfgRich(k) ==
    <<Txt("~preamble"), NL, Cmt("#c2"), NL, CatOpen("c2"), NL,
      Cmt("#k"), NL, KV("k", k), NL, CatOpen("sub"), NL, KV("j", k), NL,
      CatClose, NL, CatClose, NL, NL>> \o CfgOf(k, 0)
CfgBases == CfgDocs({0, 1}) \cup {CfgRich(1)}
CfgTheirs == CfgDocs({0, 1, 2}) \cup {CfgRich(2), <<LongLine, NL>>}
CfgOurs == CfgDocs({0, 1, 3}) \cup {CfgRich(3)}

MergeInput(ext, base, theirs, ours) ==
    [ext |-> ext, base |-> base, theirs |-> theirs, ours |-> ours]

\* the three contents a merger of each kind of file is called with
MergeInputs(in) ==
    \/ \E b \in TextBases, t \in TextTheirs, o \in TextOurs :
          in = MergeInput(".txt", b, t, o)
    \/ \E b \in JsonBases, t \in JsonTheirs \cup {TextOf(<<"X">>)}, o \in JsonOurs :
          in = MergeInput(".json", b, t, o)
    \/ \E b \in CfgBases, t \in CfgTheirs, o \in CfgOurs :
          in = MergeInput(".cfg", b, t, o)

Pending == [done |-> FALSE, merged |-> <<>>, conflicts |-> <<>>]
Finished(r) == [done |-> TRUE, merged |-> r.merged, conflicts |-> r.conflicts]

(***************************************************************************)
(* Bounded inputs of diff.Compute.                                         *)
(***************************************************************************)
ModInfo(v, sd) == [version |-> v, side |-> sd]

\* maps from some of the names to values of V
PartialMaps(V) == UNION {[D -> V] : D \in SUBSET Names}

DiffInstalled == PartialMaps({InstalledMod(1, DbFilename("a", 1), "BOTH")})
DiffManifests ==
    PartialMaps({ModInfo(v, sd) : v \in Versions, sd \in {"BOTH", "client", "SERVER"}})
DiffExtras ==
    PartialMaps({ResolvedExtraMod(v, sd) : v \in Versions, sd \in {"BOTH", "SERVER"}})

DiffInput(mods, sideMode, newMods, excludeSet, extraMods) ==
    [mods |-> mods, side |-> sideMode, newMods |-> newMods,
     exclude |-> excludeSet, extras |-> extraMods]

DiffInputs ==
    {DiffInput(mods, sd, nm, ex, xm) :
        mods \in DiffInstalled, sd \in {"client", "server"}, nm \in DiffManifests,
        ex \in SUBSET Names, xm \in DiffExtras}

(***************************************************************************)
(* State.                                                                  *)
(***************************************************************************)
VARIABLES
    dIn,     \* the arguments of a call of diff.Compute
    dOut,    \* the change list it returned
    mIn,     \* the arguments of a call of a merger
    mOut,    \* the merged content and the conflicts it returned
    world,   \* what the network serves: manifest, package index, packs; the options
    disk,    \* the instance directory: state file, mods directory, pack files
    proc,    \* the update run in progress: its position and its local variables
    hist,    \* history of the run in progress, kept for the properties
    fs,      \* a file system: the names of a directory tree and the files' bytes
    task,    \* the file-level operation in progress: positions, handles, results
    obs,     \* what that operation did so far, kept for the properties
    fIn,     \* the arguments of a call of a function taken on its own
    fOut     \* what that call returned

diffVars == <<dIn, dOut>>
mergeVars == <<mIn, mOut>>
runVars == <<world, disk, proc, hist>>
fileVars == <<fs, task, obs>>
callVars == <<fIn, fOut>>
vars == <<dIn, dOut, mIn, mOut, world, disk, proc, hist, fs, task, obs, fIn, fOut>>

NoCall == [done |-> FALSE]
NoRun == [pc |-> "none"]
IdleRun == world = NoRun /\ disk = NoRun /\ proc = NoRun /\ hist = NoRun
IdleFiles == fs = NoRun /\ task = NoRun /\ obs = NoRun
IdleCall == fIn = NoCall /\ fOut = NoCall

(***************************************************************************)
(* diff.Compute on its own.                                                *)
(***************************************************************************)
InitDiff ==
    /\ dIn \in DiffInputs
    /\ dOut = [done |-> FALSE, changes |-> <<>>]
    /\ mIn = NoCall
    /\ mOut = NoCall
    /\ IdleRun
    /\ IdleFiles
    /\ IdleCall

ComputeCall ==
    /\ ~dOut.done
    /\ dOut' = [done |-> TRUE,
                changes |-> Compute(dIn.mods, dIn.side, dIn.newMods, dIn.exclude,
                                    dIn.extras)]
    /\ UNCHANGED <<dIn, mergeVars, runVars, fileVars, callVars>>

NextDiff == ComputeCall

SpecDiff == InitDiff /\ [][NextDiff]_vars

ChangeNames(changes) == {changes[i].name : i \in 1..Len(changes)}

\* C2: the change list diff.Compute returns has at most one entry per mod
\* name, so the Added, Removed, Updated and Unchanged counts sum to the number
\* of distinct mod names in it.
C2_OneEntryPerName ==
    dOut.done =>
      LET ch == dOut.changes
          sm == Summary(ch)
      IN /\ \A i, j \in 1..Len(ch) : ch[i].name = ch[j].name => i = j
         /\ sm.added + sm.removed + sm.updated + sm.unchanged
              = Cardinality(ChangeNames(ch))

\* a call whose manifest names an installed mod that is both excluded and a
\* resolved extra has returned
C2_ExcludedExtraCompared ==
    /\ dOut.done
    /\ \E n \in DOMAIN dIn.newMods \cap DOMAIN dIn.mods \cap DOMAIN dIn.extras :
          /\ n \in dIn.exclude
          /\ IncludedIn(ParseSide(dIn.newMods[n].side), dIn.side)
          /\ IncludedIn(ParseSide(dIn.extras[n].side), dIn.side)

\* the entries of the returned change list that carry the name n, in order
EntriesOf(n) == SelectSeq(dOut.changes, LAMBDA c : c.name = n)

ManifestIncluded(n) ==
    /\ n \in DOMAIN dIn.newMods
    /\ IncludedIn(ParseSide(dIn.newMods[n].side), dIn.side)

\* the extras loop reaches the comparison for n
ExtraCompared(n) ==
    /\ n \in DOMAIN dIn.extras
    /\ ~(n \in DOMAIN dIn.newMods /\ n \notin dIn.exclude)
    /\ IncludedIn(ParseSide(dIn.extras[n].side), dIn.side)

C19_RemovedRule ==
    dOut.done =>
      \A n \in DOMAIN dIn.mods :
        LET e == EntriesOf(n)
            removed == Change(n, "Removed", dIn.mods[n].version, NoVer,
                              dIn.mods[n].side)
            count == Cardinality({i \in 1..Len(e) : e[i].type = "Removed"})
        IN IF n \notin DOMAIN dIn.newMods
           THEN IF n \notin DOMAIN dIn.extras
                THEN e = <<removed>>
                ELSE count = 0
           ELSE count = (IF ManifestIncluded(n) /\ n \in dIn.exclude THEN 1 ELSE 0)

\* a call has returned with an installed mod that left the manifest and is
\* not an extra, and another installed mod that left the manifest and is an
\* extra
C19_GoneModAndInstalledExtra ==
    /\ dOut.done
    /\ \E n, k \in DOMAIN dIn.mods \ DOMAIN dIn.newMods :
          /\ n \notin DOMAIN dIn.extras
          /\ k \in DOMAIN dIn.extras

\* C20: for an extra mod whose side is included: when the manifest names it
\* and it is not excluded, the extra adds no entry (the name has the manifest
\* rule's entries only); otherwise the last entry of that name is the extra's,
\* Added when not installed, Updated when the installed version differs from
\* the resolved version and Unchanged when they are equal.
C20_ExtraRule ==
    dOut.done =>
      \A n \in DOMAIN dIn.extras :
        IncludedIn(ParseSide(dIn.extras[n].side), dIn.side) =>
          LET e == EntriesOf(n)
              inst == n \in DOMAIN dIn.mods
              extra == dIn.extras[n]
          IN IF n \in DOMAIN dIn.newMods /\ n \notin dIn.exclude
             THEN /\ Len(e) = (IF ManifestIncluded(n) THEN 1 ELSE 0)
                  /\ \A i \in 1..Len(e) :
                        /\ e[i].new = dIn.newMods[n].version
                        /\ e[i].side = dIn.newMods[n].side
             ELSE /\ Len(e) >= 1
                  /\ e[Len(e)] =
                       Change(n,
                              IF ~inst THEN "Added"
                              ELSE IF dIn.mods[n].version # extra.version
                                   THEN "Updated" ELSE "Unchanged",
                              IF inst THEN dIn.mods[n].version ELSE NoVer,
                              extra.version, extra.side)
                  /\ \A i \in 1..(Len(e) - 1) : e[i].type = "Removed"

\* a call has returned with an included extra that the manifest also names at
\* another version without excluding it, and an included extra outside the
\* manifest that is installed at another version
C20_ManifestWinsAndExtraUpdated ==
    /\ dOut.done
    /\ \E n, k \in DOMAIN dIn.extras :
          /\ IncludedIn(ParseSide(dIn.extras[n].side), dIn.side)
          /\ ManifestIncluded(n) /\ n \notin dIn.exclude
          /\ dIn.newMods[n].version # dIn.extras[n].version
          /\ ExtraCompared(k) /\ k \notin DOMAIN dIn.newMods
          /\ k \in DOMAIN dIn.mods
          /\ dIn.mods[k].version # dIn.extras[k].version

(***************************************************************************)
(* The three mergers on their own, called as mergeFile calls them.         *)
(***************************************************************************)
InitMerge ==
    /\ MergeInputs(mIn)
    /\ mOut = Pending
    /\ dIn = NoCall
    /\ dOut = NoCall
    /\ IdleRun
    /\ IdleFiles
    /\ IdleCall

MergeTextCall ==
    /\ ~mOut.done
    /\ mIn.ext = ".txt"
    /\ mOut' = Finished(MergeText(mIn.base, mIn.theirs, mIn.ours))
    /\ UNCHANGED <<mIn, diffVars, runVars, fileVars, callVars>>

MergeJSONCall ==
    /\ ~mOut.done
    /\ mIn.ext = ".json"
    /\ mOut' = Finished(MergeJSON(mIn.base, mIn.theirs, mIn.ours))
    /\ UNCHANGED <<mIn, diffVars, runVars, fileVars, callVars>>

MergeCfgCall ==
    /\ ~mOut.done
    /\ mIn.ext = ".cfg"
    /\ mOut' = Finished(MergeCfg(mIn.base, mIn.theirs, mIn.ours))
    /\ UNCHANGED <<mIn, diffVars, runVars, fileVars, callVars>>

NextMerge == MergeTextCall \/ MergeJSONCall \/ MergeCfgCall

SpecMerge == InitMerge /\ [][NextMerge]_vars

\* the merger that does the work: MergeJSON and MergeCfg hand a file they
\* cannot parse to MergeText
EffectiveMerger(in) ==
    IF in.ext = ".json" /\ IsJSON(in.base) /\ IsJSON(in.theirs) /\ IsJSON(in.ours)
    THEN "json"
    ELSE IF in.ext = ".cfg" /\ ~ScanFails(in.base) /\ ~ScanFails(in.theirs)
                           /\ ~ScanFails(in.ours)
    THEN "cfg"
    ELSE "text"

IsPrefix(p, q) == Len(p) <= Len(q) /\ SubSeq(q, 1, Len(p)) = p

\* the value of a decoded document at a key path, Absent if there is none
RECURSIVE GetPath(_, _)
GetPath(v, path) ==
    IF path = <<>> THEN v
    ELSE IF IsMap(v) /\ Head(path) \in DOMAIN v.m
    THEN GetPath(v.m[Head(path)], Tail(path))
    ELSE Absent

\* the keys the user added or changed relative to base, with the user's value
RECURSIVE JsonUserEdits(_, _, _)
JsonUserEdits(path, base, ours) ==
    IF IsMap(base) /\ IsMap(ours)
    THEN UNION {JsonUserEdits(Append(path, k),
                              IF k \in DOMAIN base.m THEN base.m[k] ELSE Absent,
                              ours.m[k]) : k \in DOMAIN ours.m}
    ELSE IF base # ours THEN {[at |-> path, val |-> ours]} ELSE {}

\* the keys the user and the pack both changed, to different values
RECURSIVE JsonBothChanged(_, _, _, _)
JsonBothChanged(path, base, theirs, ours) ==
    IF IsMap(base) /\ IsMap(theirs) /\ IsMap(ours)
    THEN UNION {JsonBothChanged(Append(path, k), base.m[k], theirs.m[k], ours.m[k]) :
                  k \in DOMAIN base.m \cap DOMAIN theirs.m \cap DOMAIN ours.m}
    ELSE IF base # ours /\ base # theirs /\ theirs # ours
    THEN {[at |-> path, val |-> ours]}
    ELSE {}

JsonCovered(conflicts, path) ==
    \E i \in 1..Len(conflicts) :
       IsPrefix(conflicts[i].at, path) \/ IsPrefix(path, conflicts[i].at)

CfgCovered(conflicts, key) == \E i \in 1..Len(conflicts) : conflicts[i].at = key

\* the lines the user added or changed: those of ours that base does not have
TextUserLines(in) == Range(splitLines(in.ours)) \ Range(splitLines(in.base))

\* an edit of the pack and an edit of the user that replace a common base line
\* with different lines
TextBothChanged(in) ==
    LET td == diffLines(splitLines(in.base), splitLines(in.theirs))
        od == diffLines(splitLines(in.base), splitLines(in.ours))
    IN {o \in Range(od) :
          \E t \in Range(td) :
             /\ Max(t.baseStart, o.baseStart) < (IF t.baseEnd <= o.baseEnd
                                                  THEN t.baseEnd ELSE o.baseEnd)
             /\ t.newLines # o.newLines}

\* C4: in all three mergers every line, key or value the user added or
\* changed relative to base is in the merged output or covered by a returned
\* conflict.
C4_UserEditsKept ==
    mOut.done =>
      CASE EffectiveMerger(mIn) = "json" ->
             \A e \in JsonUserEdits(<<>>, Unmarshal(mIn.base), Unmarshal(mIn.ours)) :
                \/ GetPath(Unmarshal(mOut.merged), e.at) = e.val
                \/ JsonCovered(mOut.conflicts, e.at)
        [] EffectiveMerger(mIn) = "cfg" ->
             LET baseMap == ToMap(ParseCfg(mIn.base))
                 oursMap == ToMap(ParseCfg(mIn.ours))
                 outMap == ToMap(ParseCfg(mOut.merged))
             IN \A k \in DOMAIN oursMap :
                   (k \notin DOMAIN baseMap \/ baseMap[k] # oursMap[k])
                   => \/ (k \in DOMAIN outMap /\ outMap[k] = oursMap[k])
                      \/ CfgCovered(mOut.conflicts, k)
        [] OTHER ->
             \A l \in TextUserLines(mIn) :
                \/ l \in Range(splitLines(mOut.merged))
                \/ mOut.conflicts # <<>>

\* MergeCfg has merged a file to which the user added a key
C4_UserAddedCfgKey ==
    /\ mOut.done
    /\ EffectiveMerger(mIn) = "cfg"
    /\ DOMAIN ToMap(ParseCfg(mIn.ours)) \ DOMAIN ToMap(ParseCfg(mIn.base)) # {}

\* C5: in all three mergers, when the user and the pack changed the same
\* base line or the same key to different content, the merged output carries
\* the user's content and at least one conflict is returned.
C5_UserWinsWithConflict ==
    mOut.done =>
      CASE EffectiveMerger(mIn) = "json" ->
             \A e \in JsonBothChanged(<<>>, Unmarshal(mIn.base), Unmarshal(mIn.theirs),
                                       Unmarshal(mIn.ours)) :
                /\ GetPath(Unmarshal(mOut.merged), e.at) = e.val
                /\ mOut.conflicts # <<>>
        [] EffectiveMerger(mIn) = "cfg" ->
             LET baseMap == ToMap(ParseCfg(mIn.base))
                 theirsMap == ToMap(ParseCfg(mIn.theirs))
                 oursMap == ToMap(ParseCfg(mIn.ours))
                 outMap == ToMap(ParseCfg(mOut.merged))
             IN \A k \in DOMAIN baseMap \cap DOMAIN theirsMap \cap DOMAIN oursMap :
                   (baseMap[k] # oursMap[k] /\ baseMap[k] # theirsMap[k]
                      /\ theirsMap[k] # oursMap[k])
                   => /\ k \in DOMAIN outMap /\ outMap[k] = oursMap[k]
                      /\ mOut.conflicts # <<>>
        [] OTHER ->
             \A o \in TextBothChanged(mIn) :
                /\ Range(o.newLines) \subseteq Range(splitLines(mOut.merged))
                /\ mOut.conflicts # <<>>

\* a merger has merged a file in which the user and the pack replaced a
\* common base line differently
C5_BothChangedALine ==
    /\ mOut.done
    /\ EffectiveMerger(mIn) = "text"
    /\ TextBothChanged(mIn) # {}

(***************************************************************************)
(* The update workflow (updater.Run) and updater.Status.  The worlds and   *)
(* instance directories a run starts from.                                 *)
(***************************************************************************)
Ver(v) == [tag |-> v, pre |-> FALSE]
DbEntry(src, versions) == [source |-> src, side |-> "BOTH", latest |-> NoVer,
                           versions |-> versions]

\* package indexes whose version lists buildIndex has sorted newest first: a
\* is hosted by GTNewHorizons, lwjgl3ify elsewhere
Dbs ==
    {[a |-> DbEntry("", <<Ver(2), Ver(1)>>), lwjgl3ify |-> DbEntry("ext", <<Ver(1)>>)],
     [a |-> DbEntry("", <<Ver(1)>>), lwjgl3ify |-> DbEntry("ext", <<Ver(1)>>)],
     [a |-> DbEntry("", <<Ver(2), Ver(1)>>)]}

\* manifest.AllMods: an external mod replaces a GitHub mod of the same name
AllMods(m) ==
    [n \in DOMAIN m.githubMods \cup DOMAIN m.externalMods |->
       IF n \in DOMAIN m.externalMods THEN m.externalMods[n] ELSE m.githubMods[n]]

Manifest(g, e, cfg) ==
    [githubMods |-> g, externalMods |-> e, config |-> cfg, lastUpdated |-> "today"]

ManifestMods ==
    {[g |-> g, e |-> e] :
        g \in {<<>>, [a |-> ModInfo(1, "BOTH")], [a |-> ModInfo(2, "BOTH")]},
        e \in {<<>>, [lwjgl3ify |-> ModInfo(1, "BOTH")]}}

Opts(dry, force, latest, token) ==
    [DryRun |-> dry, Force |-> force, Latest |-> latest, GithubToken |-> token]
Net(mv, gh, rel) ==
    [maven |-> [n \in Names |-> IF n = "a" THEN mv ELSE NoVer],
     github |-> [n \in Names |-> IF n = "a" THEN gh ELSE NoVer],
     release |-> [n \in Names |-> IF n = "a" THEN rel ELSE NoVer]]

\* the options of a run, what Maven and GitHub answer during it, and the
\* pack version the manifest names (the state file names version 1)
Settings(opts, net, cfg) == [opts |-> opts, net |-> net, config |-> cfg]
Quiet == Net(NoVer, NoVer, NoVer)
RunSettings ==
    {Settings(Opts(FALSE, FALSE, FALSE, FALSE), Quiet, 1),
     Settings(Opts(FALSE, FALSE, FALSE, FALSE), Quiet, 2),
     Settings(Opts(TRUE, FALSE, FALSE, FALSE), Quiet, 2),
     Settings(Opts(FALSE, TRUE, FALSE, TRUE), Quiet, 1),
     Settings(Opts(FALSE, FALSE, TRUE, FALSE), Quiet, 2),
     Settings(Opts(FALSE, FALSE, TRUE, FALSE), Net(MaxVer + 1, NoVer, NoVer), 2),
     Settings(Opts(FALSE, FALSE, TRUE, TRUE), Net(NoVer, MaxVer + 1, NoVer), 2),
     Settings(Opts(FALSE, FALSE, TRUE, TRUE), Net(MaxVer + 1, MaxVer + 1, NoVer), 2)}

\* pack contents
TextA == TextOf(<<"a", "b", "c">>)
TextX == TextOf(<<"a", "X", "c">>)
TextY == TextOf(<<"a", "Y", "c">>)
TextTail == TextOf(<<"a", "b", "c", "Y">>)

Pack(ok, files) == [ok |-> ok, files |-> files]

\* the tracked state of the instance: the mods map and the jars on disk
Tracked(mods, jars) == [mods |-> mods, jars |-> jars]
Jar(n, v) == InstalledMod(v, DbFilename(n, v), "BOTH")
Instances ==
    {Tracked(NoMods, {}),
     Tracked([a |-> Jar("a", 1)], {DbFilename("a", 1)}),
     Tracked([a |-> Jar("a", 1)], {DbFilename("a", 2)}),
     Tracked([a |-> Jar("a", 2), lwjgl3ify |-> Jar("lwjgl3ify", 1)],
             {DbFilename("a", 2), DbFilename("lwjgl3ify", 1)})}

\* exclude_mods and extra_mods of the state file; a direct URL extra pins its
\* version
NoExtras == [n \in {} |-> ExtraSpec(NoVer, "", "")]
Wishes(excl, extras) == [exclude |-> excl, extras |-> extras]
UserWishes ==
    {Wishes({}, NoExtras),
     Wishes({"a"}, NoExtras),
     Wishes({"a"}, [a |-> ExtraSpec(NoVer, "", "")]),
     Wishes({}, [a |-> ExtraSpec(1, "url", "BOTH")]),
     Wishes({}, [lwjgl3ify |-> ExtraSpec(1, "", "BOTH")])}

LocalState(sd, mode, cv, md, hashes, mods, excl, extras) ==
    [side |-> sd, mode |-> mode, configVersion |-> cv, manifestDate |-> md,
     configHashes |-> hashes, mods |-> mods, excludeMods |-> excl, extraMods |-> extras,
     nil |-> {}]

\* the state with the maps and slices named in fields holding Go's nil
WithNil(st, fields) == [st EXCEPT !.nil = fields]

StateFileOf(doc) == [status |-> "ok", doc |-> doc]

Disk(sf, jars, files) ==
    [stateFile |-> sf, modsDir |-> jars, modsSub |-> {}, files |-> files,
     packnew |-> <<>>, lib |-> NoVer]

World(m, db, opts, net, packs) ==
    [manifest |-> m, db |-> db, opts |-> opts, net |-> net, packs |-> packs]

(***************************************************************************)
(* config.Save and config.Load.  The document on disk omits exclude_mods   *)
(* and extra_mods when they are empty (omitempty); Load makes the maps.    *)
(***************************************************************************)
Field(present, val) == [present |-> present, val |-> val]

\* strings.ToLower on the values a state file holds
ToLower(s) ==
    CASE s = "Client" -> "client"
      [] s = "Server" -> "server"
      [] OTHER -> s

\* json.MarshalIndent(s)
Marshal(st) ==
    [side |-> st.side, mode |-> Field(st.mode # "", st.mode),
     manifest_track |-> Field(FALSE, ""),
     manifest_date |-> st.manifestDate,
     config_version |-> st.configVersion,
     config_hashes |-> Field("configHashes" \notin st.nil, st.configHashes),
     mods |-> Field("mods" \notin st.nil, st.mods),
     exclude_mods |-> Field(st.excludeMods # {}, st.excludeMods),
     extra_mods |-> Field(DOMAIN st.extraMods # {}, st.extraMods)]

\* json.Unmarshal and the materialisation of the maps in Load
Load(data) ==
    LET mode == IF data.mode.present THEN data.mode.val ELSE ""
        promote == data.side = "" /\ ToLower(mode) \in {"client", "server"}
        side == IF promote THEN mode ELSE data.side
        kept == IF promote THEN "" ELSE mode
    IN WithNil(LocalState(side,
                  IF kept = "" /\ data.manifest_track.present
                  THEN data.manifest_track.val ELSE kept,
                  data.config_version, data.manifest_date,
                  IF data.config_hashes.present THEN data.config_hashes.val ELSE <<>>,
                  IF data.mods.present THEN data.mods.val ELSE NoMods,
                  IF data.exclude_mods.present THEN data.exclude_mods.val ELSE {},
                  IF data.extra_mods.present THEN data.extra_mods.val ELSE NoExtras),
               (IF data.exclude_mods.present THEN {} ELSE {"excludeMods"})
                  \cup (IF data.extra_mods.present THEN {} ELSE {"extraMods"}))

\* a state file os.WriteFile truncated or wrote in part before it failed
PartialFile(data) == [status |-> "partial", doc |-> data]

(***************************************************************************)
(* Steps of updater.Run.                                                   *)
(***************************************************************************)
FreshProc(run) ==
    [pc |-> "idle", run |-> run, ret |-> "none", status |-> [kind |-> "none"],
     state |-> LocalState("", "", NoVer, "", <<>>, NoMods, {}, NoExtras),
     resolvedExtras |-> <<>>, extraDownloads |-> <<>>, latestDownloads |-> <<>>,
     changes |-> <<>>, downloads |-> <<>>, results |-> <<>>, conflictFiles |-> <<>>]

FreshHist(d, prevApplied) ==
    [pre |-> d, scanned |-> NoMods, preMerge |-> d, writes |-> 0, failedAt |-> "",
     removed |-> {}, downloaded |-> {}, applied |-> FALSE, merged |-> FALSE,
     prevApplied |-> prevApplied]

\* a rollback that puts back what the run found
RestoresDisk(d, pre) == pre

\* rollback := func(cause error) error { return cause }: what the run leaves
\* on disk when a step fails is what is there at that moment
rollback(d, pre) == d

\* the run ends with the error of the step that failed
Fail(step, d, h) ==
    /\ proc' = [proc EXCEPT !.pc = "failed", !.ret = "error"]
    /\ hist' = [h EXCEPT !.failedAt = step]
    /\ disk' = rollback(d, hist.pre)

Goto(pc) == proc' = [proc EXCEPT !.pc = pc]

\* loadAndLogState
LoadState ==
    /\ proc.pc = "idle"
    /\ hist' = FreshHist(disk, hist.prevApplied)
    /\ \/ /\ disk.stateFile.status = "ok"
          /\ proc' = [FreshProc(proc.run) EXCEPT !.pc = "loaded",
                                                  !.state = Load(disk.stateFile.doc)]
       \/ /\ disk.stateFile.status # "ok"
          /\ proc' = [FreshProc(proc.run) EXCEPT !.pc = "failed", !.ret = "error"]
    /\ UNCHANGED <<world, disk, diffVars, mergeVars, fileVars, callVars>>

\* fetchAndLogManifest
FetchManifest ==
    /\ proc.pc = "loaded"
    /\ \/ Goto("manifest") /\ UNCHANGED <<disk, hist>>
       \/ Fail("manifest", disk, hist)
    /\ UNCHANGED <<world, diffVars, mergeVars, fileVars, callVars>>

\* fetchAndLogAssetsDB
FetchAssetsDB ==
    /\ proc.pc = "manifest"
    /\ \/ Goto("db") /\ UNCHANGED <<disk, hist>>
       \/ Fail("db", disk, hist)
    /\ UNCHANGED <<world, diffVars, mergeVars, fileVars, callVars>>

RefreshTrackedMods ==
    /\ proc.pc = "db"
    /\ \/ /\ proc' = [proc EXCEPT
                        !.pc = "refreshed",
                        !.state.mods = refreshTrackedMods(proc.state.mods, proc.state.mode,
                                          world.db, AllMods(world.manifest),
                                          disk.modsDir, disk.modsSub)]
          /\ hist' = [hist EXCEPT !.scanned = proc'.state.mods]
          /\ UNCHANGED disk
       \/ Fail("scan", disk, hist)
    /\ UNCHANGED <<world, diffVars, mergeVars, fileVars, callVars>>

ResolveExtras ==
    /\ proc.pc = "refreshed"
    /\ LET r == resolveConfiguredExtras(proc.state.extraMods, world.db,
                                        world.opts.GithubToken, world.opts.Latest, world.net)
       IN \/ /\ r.ok
             /\ proc' = [proc EXCEPT !.pc = "extras",
                                     !.resolvedExtras = r.resolvedExtras,
                                     !.extraDownloads = r.extraDownloads]
             /\ UNCHANGED <<disk, hist>>
          \/ /\ ~r.ok
             /\ Fail("extras", disk, hist)
    /\ UNCHANGED <<world, diffVars, mergeVars, fileVars, callVars>>

\* a run that goes on under --dry-run
DryRunGoesOn(opts) == FALSE

\* if opts.DryRun { printDryRun(changes); return result, nil }
DryRunStops(opts) == opts.DryRun

AlreadyUpToDate(opts, sm, st, m) ==
    /\ ~opts.Force
    /\ ~opts.DryRun
    /\ sm.added = 0 /\ sm.removed = 0 /\ sm.updated = 0
    /\ st.configVersion = m.config

\* diff.Compute, resolveLatestVersions, the "Already up to date" return and
\* the dry-run return
ComputeChanges ==
    /\ proc.pc = "extras"
    /\ LET computed == Compute(proc.state.mods, proc.state.side, AllMods(world.manifest),
                               proc.state.excludeMods, proc.resolvedExtras)
           lat == IF world.opts.Latest
                  THEN resolveLatestVersions(world.db, computed, proc.extraDownloads,
                                             world.opts.GithubToken, world.net)
                  ELSE [changes |-> computed, latestDownloads |-> <<>>]
           stop == \/ AlreadyUpToDate(world.opts, Summary(lat.changes), proc.state,
                                      world.manifest)
                   \/ DryRunStops(world.opts)
       IN proc' = [proc EXCEPT !.changes = lat.changes,
                               !.latestDownloads = lat.latestDownloads,
                               !.pc = IF stop THEN "done" ELSE "computed",
                               !.ret = IF stop THEN "ok" ELSE @]
    /\ UNCHANGED <<world, disk, hist, diffVars, mergeVars, fileVars, callVars>>

\* selectDownloadChanges and resolveDownloadsForChanges
ResolveDownloads ==
    /\ proc.pc = "computed"
    /\ LET r == resolveDownloadsForChanges(selectDownloadChanges(proc.changes), world.db,
                    world.opts.GithubToken, proc.extraDownloads, proc.latestDownloads)
       IN \/ /\ r.ok
             /\ proc' = [proc EXCEPT !.pc = "resolved",
                                     !.downloads = r.downloads,
                                     !.results = [i \in 1..Len(r.downloads) |-> "pending"]]
             /\ UNCHANGED <<disk, hist>>
          \/ /\ ~r.ok
             /\ Fail("resolve", disk, hist)
    /\ UNCHANGED <<world, diffVars, mergeVars, fileVars, callVars>>

EnsureModsDir ==
    /\ proc.pc = "resolved"
    /\ \/ Goto("dir") /\ UNCHANGED <<disk, hist>>
       \/ Fail("mkdir", disk, hist)
    /\ UNCHANGED <<world, diffVars, mergeVars, fileVars, callVars>>

\* whether the change c makes removeOutdatedJars delete a jar that is there
RemovesJar(c, installedMods, jars) ==
    /\ c.type \in {"Removed", "Updated"}
    /\ c.name \in DOMAIN installedMods
    /\ installedMods[c.name].filename \in jars

\* os.Remove can fail on any jar that is there; the jars of the changes before
\* it are gone by then
RemoveOutdatedJars ==
    /\ proc.pc = "dir"
    /\ \/ LET gone == JarsToRemove(proc.changes, proc.state.mods, Len(proc.changes))
          IN /\ disk' = [disk EXCEPT !.modsDir = @ \ gone]
             /\ hist' = [hist EXCEPT !.removed = gone \cap disk.modsDir]
             /\ Goto("removed")
       \/ \E k \in 1..Len(proc.changes) :
             LET gone == JarsToRemove(proc.changes, proc.state.mods, k - 1)
             IN /\ RemovesJar(proc.changes[k], proc.state.mods, disk.modsDir \ gone)
                /\ Fail("remove", [disk EXCEPT !.modsDir = @ \ gone],
                        [hist EXCEPT !.removed = gone \cap disk.modsDir])
    /\ UNCHANGED <<world, diffVars, mergeVars, fileVars, callVars>>

\* one job of downloader.Run, run by any worker in any order: the jar is in
\* the mods directory when the job succeeds
DownloadJob(i) ==
    /\ proc.pc = "removed"
    /\ proc.results[i] = "pending"
    /\ \/ /\ proc' = [proc EXCEPT !.results[i] = "ok"]
          /\ disk' = [disk EXCEPT !.modsDir = @ \cup {proc.downloads[i].filename}]
          /\ hist' = [hist EXCEPT !.downloaded = @ \cup {proc.downloads[i].filename}]
       \/ /\ proc' = [proc EXCEPT !.results[i] = "err"]
          /\ UNCHANGED <<disk, hist>>
    /\ UNCHANGED <<world, diffVars, mergeVars, fileVars, callVars>>

AllJobsDone(results) == \A i \in 1..Len(results) : results[i] # "pending"

\* downloadMods once downloader.Run has returned every result
FinishDownloads ==
    /\ proc.pc = "removed"
    /\ AllJobsDone(proc.results)
    /\ \/ /\ \A i \in 1..Len(proc.results) : proc.results[i] = "ok"
          /\ Goto("downloaded")
          /\ UNCHANGED <<disk, hist>>
       \/ /\ \E i \in 1..Len(proc.results) : proc.results[i] = "err"
          /\ Fail("download", disk, hist)
    /\ UNCHANGED <<world, diffVars, mergeVars, fileVars, callVars>>

\* the first Added or Updated change of the launcher library, if any
LwjglChanges(changes) ==
    SelectSeq(changes, LAMBDA c : c.type \in {"Added", "Updated"} /\ NeedsUpdate(c.name))

UpdateLwjgl3ifyIfNeeded ==
    /\ proc.pc = "downloaded"
    /\ LET cs == LwjglChanges(proc.changes)
       IN \/ /\ cs = <<>>
             /\ Goto("lwjgl")
             /\ UNCHANGED <<disk, hist>>
          \/ /\ cs # <<>>
             /\ Goto("lwjgl")
             /\ disk' = [disk EXCEPT !.lib = cs[1].new]
             /\ UNCHANGED hist
          \/ /\ cs # <<>>
             /\ Fail("lwjgl3ify", disk, hist)
    /\ UNCHANGED <<world, diffVars, mergeVars, fileVars, callVars>>

\* the old pack MergeConfigs takes the base contents from, if it can get it
OldPack(packs, oldConfigVersion) ==
    IF oldConfigVersion \in DOMAIN packs /\ packs[oldConfigVersion].ok
    THEN packs[oldConfigVersion]
    ELSE Pack(FALSE, <<>>)

\* the end of mergeConfigsIfNeeded, after MergeConfigs returned r
MergeReturns(r, failAt) ==
    \/ /\ ~r.err
       /\ failAt = 0
       /\ disk' = [disk EXCEPT !.files = r.files, !.packnew = r.packnew]
       /\ proc' = [proc EXCEPT !.pc = "merged",
                               !.state.configHashes = r.newHashes,
                               !.conflictFiles = r.conflictFiles]
       /\ hist' = [hist EXCEPT !.merged = TRUE, !.preMerge = disk]
    \/ /\ r.err
       /\ Fail("merge", [disk EXCEPT !.files = r.files, !.packnew = r.packnew], hist)

MergeConfigsIfNeeded ==
    /\ proc.pc = "lwjgl"
    /\ \/ /\ proc.state.configVersion = world.manifest.config
          /\ Goto("merged")
          /\ UNCHANGED <<disk, hist>>
       \/ /\ proc.state.configVersion # world.manifest.config
          /\ \E failAt \in 0..Len(PathSeq) :
                MergeReturns(MergeConfigs(disk.files, disk.packnew,
                                          proc.state.configHashes,
                                          OldPack(world.packs, proc.state.configVersion),
                                          world.packs[world.manifest.config], failAt),
                             failAt)
    /\ UNCHANGED <<world, diffVars, mergeVars, fileVars, callVars>>

\* the loop of persistUpdatedState over the changes
RECURSIVE ApplyChanges(_, _, _, _, _, _)
ApplyChanges(mods, changes, db, token, extraDownloads, latestDownloads) ==
    IF changes = <<>> THEN mods
    ELSE LET c == Head(changes)
             r == resolveModDownload(db, c.name, c.new, token, extraDownloads,
                                     latestDownloads)
             next == CASE c.type \in {"Added", "Updated"} ->
                            MapPut(mods, c.name,
                                   InstalledMod(c.new,
                                                IF r.ok THEN r.dl.filename ELSE NoFile,
                                                c.side))
                       [] c.type = "Removed" -> MapDelete(mods, c.name)
                       [] OTHER -> mods
         IN ApplyChanges(next, Tail(changes), db, token, extraDownloads, latestDownloads)

\* persistUpdatedState: state.Save either writes the document or fails,
\* leaving the old file or a file written in part
PersistUpdatedState ==
    /\ proc.pc = "merged"
    /\ LET st == [proc.state EXCEPT
                    !.mods = ApplyChanges(proc.state.mods, proc.changes, world.db,
                                 world.opts.GithubToken, proc.extraDownloads,
                                 proc.latestDownloads),
                    !.configVersion = world.manifest.config,
                    !.manifestDate = world.manifest.lastUpdated]
       IN \/ /\ disk' = [disk EXCEPT !.stateFile = StateFileOf(Marshal(st))]
             /\ proc' = [proc EXCEPT !.pc = "done", !.ret = "ok", !.state = st]
             /\ hist' = [hist EXCEPT !.writes = @ + 1, !.applied = TRUE]
          \/ Fail("save", disk, hist)
          \/ Fail("save", [disk EXCEPT !.stateFile = PartialFile(Marshal(st))],
                  [hist EXCEPT !.writes = @ + 1])
    /\ UNCHANGED <<world, diffVars, mergeVars, fileVars, callVars>>

\* the command is run again after an update that saved the state
NextRun ==
    /\ proc.pc = "done"
    /\ hist.applied
    /\ proc.run < MaxRuns
    /\ proc' = FreshProc(proc.run + 1)
    /\ hist' = FreshHist(disk, hist.applied)
    /\ UNCHANGED <<world, disk, diffVars, mergeVars, fileVars, callVars>>

\* what updater.Status reports
StatusReport(okManifest, okDb) ==
    IF disk.stateFile.status # "ok" \/ ~okManifest THEN [kind |-> "error"]
    ELSE LET st == Load(disk.stateFile.doc)
             r == resolveConfiguredExtras(st.extraMods, world.db,
                                          world.opts.GithubToken, FALSE, world.net)
         IN IF world.manifest.lastUpdated = st.manifestDate THEN [kind |-> "uptodate"]
            ELSE IF DOMAIN st.extraMods # {} /\ (~okDb \/ ~r.ok) THEN [kind |-> "error"]
            ELSE [kind |-> "changes",
                  summary |-> Summary(Compute(st.mods, st.side, AllMods(world.manifest),
                                  st.excludeMods,
                                  IF DOMAIN st.extraMods # {} THEN r.resolvedExtras
                                  ELSE <<>>))]

\* updater.Status, from its first statement to its return
StatusCall ==
    /\ proc.pc = "idle"
    /\ proc.status.kind = "none"
    /\ \E okManifest, okDb \in BOOLEAN :
          proc' = [proc EXCEPT !.status = StatusReport(okManifest, okDb)]
    /\ UNCHANGED <<world, disk, hist, diffVars, mergeVars, fileVars, callVars>>

(***************************************************************************)
(* The instances the workflow starts from.                                 *)
(***************************************************************************)
InitialState(hashes, mods, excl, extras) ==
    StateFileOf(Marshal(LocalState("client", "daily", 1, "yesterday", hashes, mods, excl, extras)))

PlainPacks == [v \in 1..2 |-> Pack(TRUE, [f \in {"readme.txt"} |->
                                             IF v = 1 THEN TextA ELSE TextX])]
PlainFiles == [f \in {"readme.txt"} |-> TextA]
PlainHashes == [f \in {"readme.txt"} |-> hashBytes(TextA)]

\* many mods situations over one pack file the user did not touch
ModsWorlds ==
    {[world |-> World(Manifest(mm.g, mm.e, rs.config), db, rs.opts, rs.net, PlainPacks),
      disk |-> Disk(InitialState(PlainHashes, inst.mods, uw.exclude, uw.extras),
                    inst.jars, PlainFiles)] :
        mm \in ManifestMods, db \in Dbs, rs \in RunSettings,
        inst \in Instances, uw \in UserWishes}

\* the contents a pack file of each kind takes: the old pack's, the new
\* pack's, and what the user made of it
Contents(path) ==
    CASE Ext(path) = ".cfg" ->
           [old |-> CfgOf(1, 0), new |-> {CfgOf(1, 0), CfgOf(2, 0)},
            user |-> {CfgOf(1, 0), CfgOf(2, 0), CfgOf(3, 0), CfgOf(1, 3)}]
      [] Ext(path) = ".json" ->
           [old |-> JsonOf([k1 |-> JNum(1), k2 |-> JNum(1)]),
            new |-> {JsonOf([k1 |-> JNum(1), k2 |-> JNum(1)]),
                     JsonOf([k1 |-> JNum(2), k2 |-> JNum(1)])},
            user |-> {JsonOf([k1 |-> JNum(1), k2 |-> JNum(1)]),
                      JsonOf([k1 |-> JNum(2), k2 |-> JNum(1)]),
                      JsonOf([k1 |-> JNum(3), k2 |-> JNum(1)]),
                      JsonOf([k1 |-> JNum(1), k2 |-> JNum(3)])}]
      [] OTHER ->
           [old |-> TextA, new |-> {TextA, TextX},
            user |-> {TextA, TextX, TextY, TextTail}]

\* the key config_hashes tracks the file under: its path, its path without
\* config/ (older versions), or none
TrackedAs(path, how, content) ==
    CASE how = "path" -> [f \in {path} |-> hashBytes(content)]
      [] how = "legacy" -> [f \in {Legacy(path)} |-> hashBytes(content)]
      [] OTHER -> <<>>

\* one pack file in every situation of the decision matrix, beside a file
\* the new pack adds; the mods need one update
PackWorlds ==
    UNION {
      {[world |-> World(Manifest([a |-> ModInfo(2, "BOTH")], <<>>, 2),
                        [a |-> DbEntry("", <<Ver(2), Ver(1)>>)],
                        Opts(FALSE, FALSE, FALSE, FALSE), Quiet,
                        [v \in 1..2 |->
                           IF v = 1 THEN Pack(oldOk, [f \in {p} |-> Contents(p).old])
                           ELSE Pack(newOk, [f \in {p, "readme.txt"} |->
                                               IF f = p THEN new ELSE TextA])]),
        disk |-> Disk(InitialState(TrackedAs(p, how, Contents(p).old),
                                   [a |-> Jar("a", 1)], {}, NoExtras),
                      {DbFilename("a", 1)},
                      IF user.present THEN [f \in {p} |-> user.val] ELSE <<>>)] :
         new \in Contents(p).new,
         user \in {Field(TRUE, c) : c \in Contents(p).user} \cup {Field(FALSE, <<>>)},
         how \in {"path", "legacy", "none"},
         oldOk \in BOOLEAN, newOk \in BOOLEAN} :
      p \in {"config/a.cfg", "config/b.json"}}

\* an instance directory that init never set up
BareWorlds ==
    {[world |-> World(Manifest(<<>>, <<>>, 1), [a |-> DbEntry("", <<Ver(1)>>)],
                      Opts(FALSE, FALSE, FALSE, FALSE), Quiet, PlainPacks),
      disk |-> Disk([status |-> "absent", doc |-> <<>>], {}, <<>>)]}

InitRun ==
    /\ \E w \in ModsWorlds \cup PackWorlds \cup BareWorlds :
          /\ world = w.world
          /\ disk = w.disk
          /\ hist = FreshHist(w.disk, FALSE)
    /\ proc = FreshProc(1)
    /\ dIn = NoCall /\ dOut = NoCall /\ mIn = NoCall /\ mOut = NoCall
    /\ IdleFiles
    /\ IdleCall

NextUpdate ==
    \/ LoadState
    \/ FetchManifest
    \/ FetchAssetsDB
    \/ RefreshTrackedMods
    \/ ResolveExtras
    \/ ComputeChanges
    \/ ResolveDownloads
    \/ EnsureModsDir
    \/ RemoveOutdatedJars
    \/ \E i \in 1..Len(proc.results) : DownloadJob(i)
    \/ FinishDownloads
    \/ UpdateLwjgl3ifyIfNeeded
    \/ MergeConfigsIfNeeded
    \/ PersistUpdatedState
    \/ NextRun
    \/ StatusCall

SpecRun == InitRun /\ [][NextUpdate]_vars


(***************************************************************************)
(* Properties of the update workflow.                                      *)
(***************************************************************************)
\* the state file as it was when the run loaded it, and as it is now
PreState == Load(hist.pre.stateFile.doc)
SavedState == Load(disk.stateFile.doc)

\* the run went through persistUpdatedState and saved
UpdateSaved == proc.pc = "done" /\ hist.applied

ChangedNames(changes) ==
    {changes[i].name : i \in {j \in 1..Len(changes) : changes[j].type # "Unchanged"}}

AllUnchanged(changes) == \A i \in 1..Len(changes) : changes[i].type = "Unchanged"

\* C1: after a successful update the saved mods map is the pre-update map
\* (the one the rescan of the mods directory produced, which the changes were
\* computed against) with every Removed entry deleted, every Added or Updated
\* entry at its new version, and every other entry unchanged.
C1_SavedModsFollowChanges ==
    UpdateSaved =>
      /\ \A i \in 1..Len(proc.changes) :
            LET c == proc.changes[i]
            IN /\ c.type = "Removed" => c.name \notin DOMAIN SavedState.mods
               /\ c.type \in {"Added", "Updated"} =>
                     /\ c.name \in DOMAIN SavedState.mods
                     /\ SavedState.mods[c.name].version = c.new
      /\ \A n \in (DOMAIN hist.scanned \cup DOMAIN SavedState.mods)
                     \ ChangedNames(proc.changes) :
            /\ n \in DOMAIN hist.scanned
            /\ n \in DOMAIN SavedState.mods
            /\ SavedState.mods[n] = hist.scanned[n]

\* an update that removed one mod and added or updated another was saved
C1_SavedAfterRemoveAndUpdate ==
    /\ UpdateSaved
    /\ \E i, j \in 1..Len(proc.changes) :
          /\ proc.changes[i].type = "Removed"
          /\ proc.changes[j].type \in {"Added", "Updated"}

\* C3: run again right after a successful update, with the same manifest,
\* index, excludes and extras and nothing changed outside, the update
\* computes no Added, Removed or Updated change.
C3_RerunIsIdempotent ==
    hist.prevApplied => AllUnchanged(proc.changes)

\* the second run computed its changes
C3_SecondRunCompared ==
    /\ hist.prevApplied
    /\ proc.pc \in {"computed", "done"}
    /\ proc.changes # <<>>


\* what MergeConfigs decided for the file p of the new pack
NewPackFiles == world.packs[world.manifest.config].files
Decision(p) ==
    FileDecision(p, NewPackFiles[p], hist.preMerge.files, PreState.configHashes,
                 OldPack(world.packs, PreState.configVersion))

\* C6: when the merge of a file reports a conflict, the user's file is left
\* byte for byte as it was, the pack's content is written to <path>.packnew,
\* and the path is in the conflict list of the result.
C6_ConflictKeepsUserFile ==
    hist.merged =>
      \A p \in DOMAIN NewPackFiles :
         (Decision(p).kind = "conflict" \/ p \in Range(proc.conflictFiles)) =>
            /\ p \in DOMAIN hist.preMerge.files
            /\ p \in DOMAIN disk.files
            /\ disk.files[p] = hist.preMerge.files[p]
            /\ p \in DOMAIN disk.packnew
            /\ disk.packnew[p] = NewPackFiles[p]
            /\ p \in Range(proc.conflictFiles)

\* the merge ran and one file was a conflict
C6_MergeHadConflict ==
    /\ hist.merged
    /\ \E p \in DOMAIN NewPackFiles : Decision(p).kind = "conflict"

\* C7 as stated: after a successful update, hashing the game-directory file
\* of every path in the saved config_hashes reproduces the stored hash.
C7_HashesMatchGameFiles ==
    UpdateSaved =>
      \A p \in DOMAIN SavedState.configHashes :
         /\ p \in DOMAIN disk.files
         /\ hashBytes(disk.files[p]) = SavedState.configHashes[p]

\* C7: after a successful update that merged the pack files, config_hashes
\* has exactly the paths of the new pack, each with the hash of the new
\* pack's content; the game-directory file reproduces it where the merge
\* wrote the pack's content (new, restored, updated).
C7_HashesAreNewPackHashes ==
    (UpdateSaved /\ hist.merged) =>
      /\ DOMAIN SavedState.configHashes = DOMAIN NewPackFiles
      /\ \A p \in DOMAIN NewPackFiles :
            /\ SavedState.configHashes[p] = hashBytes(NewPackFiles[p])
            /\ Decision(p).kind \in {"new", "restored", "updated"} =>
                  /\ p \in DOMAIN disk.files
                  /\ hashBytes(disk.files[p]) = SavedState.configHashes[p]

\* the update saved hashes for a file the user keeps a different content of
C7_SavedHashOfKeptFile ==
    /\ UpdateSaved
    /\ hist.merged
    /\ \E p \in DOMAIN NewPackFiles :
          /\ Decision(p).kind \in {"kept", "merged", "conflict"}
          /\ hashBytes(disk.files[p]) # SavedState.configHashes[p]

\* C8: a dry-run update and a status call write nothing: the state file, the
\* mods directory and the tracked config files are the same after as before.
C8_DryRunAndStatusWriteNothing ==
    [][(world.opts.DryRun \/ proc'.status # proc.status) => disk' = disk]_vars

\* a dry run ended with changes it would have made
C8_DryRunSawChanges ==
    /\ world.opts.DryRun
    /\ proc.pc = "done"
    /\ ~AllUnchanged(proc.changes)
    /\ disk = hist.pre

\* C9: the error of any step ends the run: no later step executes, the run
\* returns the error, and what was removed from or downloaded to the mods
\* directory before the error stays as it is.
C9_ErrorAbortsWithoutRollback ==
    /\ [][proc.pc # "failed"]_vars
    /\ [](proc.pc = "failed" =>
            /\ proc.ret = "error"
            /\ disk.modsDir = (hist.pre.modsDir \ hist.removed) \cup hist.downloaded)

\* a run failed after it removed a jar and downloaded another
C9_FailedAfterChanges ==
    /\ proc.pc = "failed"
    /\ hist.removed # {}
    /\ hist.downloaded # {}

\* the run ended as an update: neither a dry run nor already up to date
UpdateEnded ==
    /\ proc.pc = "done"
    /\ ~world.opts.DryRun
    /\ ~AlreadyUpToDate(world.opts, Summary(proc.changes), PreState, world.manifest)

\* C10: the state file is written exactly once by a successful update and
\* never by a failed one, and only after every download job completed and
\* the config merge finished.
C10_StateWrittenOnceOnSuccess ==
    /\ UpdateEnded => hist.writes = 1
    /\ proc.pc = "failed" => (hist.writes = 0 /\ disk.stateFile = hist.pre.stateFile)
    /\ hist.writes > 0 =>
          /\ AllJobsDone(proc.results)
          /\ proc.pc = "done" \/ hist.failedAt = "save"

\* an update downloaded, merged the pack files and saved
C10_SavedAfterDownloadsAndMerge ==
    /\ UpdateEnded
    /\ hist.writes = 1
    /\ hist.merged
    /\ proc.results # <<>>

\* the jobs of the run that failed and fetch a first-party mod
FailedFirstParty ==
    {i \in 1..Len(proc.results) :
        /\ proc.results[i] = "err"
        /\ IsGTNH(world.db, proc.downloads[i].modName)}

\* C17: an update aborts on a failed download of a first-party mod only after
\* a second job for that mod, against its Maven URL, has failed too.
C17_MavenRetryBeforeAbort ==
    (proc.pc = "failed" /\ hist.failedAt = "download") =>
      \A i \in FailedFirstParty :
        \E j \in 1..Len(proc.results) :
          /\ j # i
          /\ proc.downloads[j].modName = proc.downloads[i].modName
          /\ proc.downloads[j].via = "maven"
          /\ proc.results[j] = "err"

\* a run aborted after the only job of a first-party mod, fetched from the
\* releases of its repository, failed
C17_AbortedOnFirstPartyFailure ==
    /\ proc.pc = "failed"
    /\ hist.failedAt = "download"
    /\ \E i \in FailedFirstParty : proc.downloads[i].via # "maven"

(***************************************************************************)
(* Files at the level of the system calls: a directory maps a path to a    *)
(* file, a file is a sequence of blocks, an open handle refers to the file *)
(* whatever its names become.                                              *)
(***************************************************************************)
\* a block no write has filled: what a write past the end leaves before it
Hole == [hole |-> TRUE]

EmptyFs == [names |-> [x \in {} |-> 0], inodes |-> <<>>]

FsExists(f, path) == path \in DOMAIN f.names
FsData(f, path) == f.inodes[f.names[path]]

\* os.Create / O_CREATE|O_TRUNC: a new empty file, or the existing file cut to
\* length zero
FsCreate(f, path) ==
    IF FsExists(f, path)
    THEN [f EXCEPT !.inodes[f.names[path]] = <<>>]
    ELSE [names |-> MapPut(f.names, path, Len(f.inodes) + 1),
          inodes |-> Append(f.inodes, <<>>)]

\* a write of one block through a handle whose offset is off
FsWriteAt(f, ino, off, block) ==
    LET c == f.inodes[ino]
    IN [f EXCEPT !.inodes[ino] =
          [k \in 1..Max(Len(c), off + 1) |->
              IF k = off + 1 THEN block ELSE IF k <= Len(c) THEN c[k] ELSE Hole]]

\* os.Rename of an existing name, os.Remove
FsRename(f, from, to) ==
    [f EXCEPT !.names = MapPut(MapDelete(f.names, from), to, f.names[from])]
FsRemove(f, path) == [f EXCEPT !.names = MapDelete(f.names, path)]

(***************************************************************************)
(* LocalState.Save at the level of the system calls.                       *)
(***************************************************************************)
StatePath == [dir |-> "instance", file |-> ".gtnh-daily-updater.json", tmp |-> FALSE]

\* the bytes of json.MarshalIndent(s), in blocks: the opening with the scalar
\* fields, one block per entry of "mods" in key order, the closing brace
Encode(st) ==
    LET doc == Marshal(st)
        keys == SortedKeys(doc.mods.val)
    IN <<[open |-> "{", side |-> doc.side, manifest_date |-> doc.manifest_date,
          config_version |-> doc.config_version]>>
       \o [i \in 1..Len(keys) |-> [key |-> keys[i], mod |-> doc.mods.val[keys[i]]]]
       \o <<[close |-> "}"]>>

\* the states a save replaces and writes
SaveStates ==
    {LocalState("client", "daily", cv, "d1", <<>>, mods, {}, NoExtras) :
        cv \in {1},
        mods \in PartialMaps({InstalledMod(v, DbFilename("a", v), "BOTH") : v \in Versions})}

FsWith(path, data) == [names |-> MapPut(EmptyFs.names, path, 1), inodes |-> <<data>>]

InitSave ==
    /\ \E old \in SaveStates, new \in SaveStates :
          /\ old # new
          /\ fs = FsWith(StatePath, Encode(old))
          /\ task = [pc |-> "call", data |-> Encode(new), ino |-> 0, off |-> 0,
                     ret |-> "none"]
          /\ obs = [old |-> Encode(old), truncated |-> FALSE]
    /\ dIn = NoCall /\ dOut = NoCall /\ mIn = NoCall /\ mOut = NoCall
    /\ IdleRun
    /\ IdleCall

\* os.WriteFile: OpenFile(path, O_WRONLY|O_CREATE|O_TRUNC, perm)
SaveOpen ==
    /\ task.pc = "call"
    /\ \/ /\ fs' = FsCreate(fs, StatePath)
          /\ task' = [task EXCEPT !.pc = "write", !.ino = fs.names[StatePath]]
          /\ obs' = [obs EXCEPT !.truncated = TRUE]
       \/ /\ task' = [task EXCEPT !.pc = "returned", !.ret = "error"]
          /\ UNCHANGED <<fs, obs>>
    /\ UNCHANGED <<diffVars, mergeVars, runVars, callVars>>

\* os.WriteFile: f.Write(data), block by block, then Close
SaveWrite ==
    /\ task.pc = "write"
    /\ \/ /\ task.off < Len(task.data)
          /\ fs' = FsWriteAt(fs, task.ino, task.off, task.data[task.off + 1])
          /\ task' = [task EXCEPT !.off = @ + 1]
       \/ /\ task.off < Len(task.data)
          /\ task' = [task EXCEPT !.pc = "returned", !.ret = "error"]
          /\ UNCHANGED fs
       \/ /\ task.off = Len(task.data)
          /\ task' = [task EXCEPT !.pc = "returned", !.ret = "ok"]
          /\ UNCHANGED fs
    /\ UNCHANGED <<obs, diffVars, mergeVars, runVars, callVars>>

\* the process dies during the save
SaveCrash ==
    /\ task.pc \in {"call", "write"}
    /\ task' = [task EXCEPT !.pc = "crashed"]
    /\ UNCHANGED <<fs, obs, diffVars, mergeVars, runVars, callVars>>

NextSave == SaveOpen \/ SaveWrite \/ SaveCrash

SpecSave == InitSave /\ [][NextSave]_vars

\* C11: whatever happens during a save, the state file holds either the
\* complete document it held before or the complete new document.
C11_SaveIsAtomic ==
    task.pc \in {"call", "write", "returned", "crashed"} =>
      /\ FsExists(fs, StatePath)
      /\ FsData(fs, StatePath) \in {obs.old, task.data}

\* the process died after the save wrote the first blocks of the new document
C11_CrashedInsideWrite ==
    /\ task.pc = "crashed"
    /\ obs.truncated
    /\ task.off > 0
    /\ task.off < Len(task.data)

(***************************************************************************)
(* downloader.Run at the level of the system calls: the workers, the       *)
(* retries, downloadFile and copyFile.                                     *)
(***************************************************************************)
\* blocks in the body of a jar
BodyLen == 2
\* jobs in one call of Run
MaxJobs == 2
\* transient I/O and network errors in one call of Run
MaxFaults == 1

maxRetries == 3
\* the worker count Run uses when it is given none
DefaultConcurrency == 6

\* a job; url tells whether its server answers 200 with the body or an error
Job(modName, filename, url) == [modName |-> modName, filename |-> filename, url |-> url]
JobSet == {Job("a", "a.jar", "ok"), Job("b", "b.jar", "down")}
JobLists == UNION {[1..n -> JobSet] : n \in 1..MaxJobs}

\* the body the server of a job sends
Body(dl) == [k \in 1..BodyLen |-> [mod |-> dl.modName, file |-> dl.filename, part |-> k]]
\* a jar an earlier update left in the mods directory
OldJar(dl) == <<[mod |-> dl.modName, file |-> dl.filename, part |-> 0]>>

\* filepath.Join(destDir, dl.Filename), filepath.Join(cacheDir, dl.ModName,
\* dl.Filename) and path + ".tmp"
DestPath(dl) == [dir |-> "mods", mod |-> "", file |-> dl.filename, tmp |-> FALSE]
CachePath(dl) == [dir |-> "cache", mod |-> dl.modName, file |-> dl.filename, tmp |-> FALSE]
Tmp(path) == [path EXCEPT !.tmp = TRUE]

\* a counter whose Add loses the update
AddLosesUpdate(counter) == counter

\* a goroutine of Run: its position, its job, the attempts it made on it, the
\* file it is filling (cache or dest), its handles and what it will report
Worker(pc) ==
    [pc |-> pc, i |-> 0, tries |-> 0, target |-> "none", out |-> 0, off |-> 0,
     in |-> 0, err |-> FALSE, n |-> 0]

Concurrency(c) == IF c < 1 THEN DefaultConcurrency ELSE c

\* the file systems Run can find: the jar of job "a" absent from or present in
\* the cache and the mods directory
RECURSIVE FsOf(_)
FsOf(files) ==
    IF files = <<>> THEN EmptyFs
    ELSE LET f == FsOf(Tail(files))
         IN [names |-> MapPut(f.names, files[1].path, Len(f.inodes) + 1),
             inodes |-> Append(f.inodes, files[1].data)]

InitialFiles(cached, installed) ==
    LET a == Job("a", "a.jar", "ok")
    IN (IF cached THEN <<[path |-> CachePath(a), data |-> Body(a)]>> ELSE <<>>)
       \o (IF installed THEN <<[path |-> DestPath(a), data |-> OldJar(a)]>> ELSE <<>>)

InitDownload ==
    /\ \E downloads \in JobLists, c \in 0..2, cacheDir, cached, installed \in BOOLEAN :
          /\ cached => cacheDir
          /\ fs = FsOf(InitialFiles(cached, installed))
          /\ task = [downloads |-> downloads, cacheDir |-> cacheDir,
                     total |-> Len(downloads),
                     work |-> [i \in 1..Len(downloads) |-> i],
                     results |-> [i \in 1..Len(downloads) |-> "none"],
                     completed |-> 0,
                     w |-> [k \in 1..Concurrency(c) |-> Worker("recv")],
                     returned |-> FALSE]
          /\ obs = [http |-> [i \in 1..Len(downloads) |-> 0],
                    calls |-> <<>>, faults |-> 0, crashed |-> FALSE,
                    made |-> [i \in 1..Len(downloads) |-> {}],
                    filled |-> {}, late |-> {}, start |-> fs]
    /\ dIn = NoCall /\ dOut = NoCall /\ mIn = NoCall /\ mOut = NoCall
    /\ IdleRun
    /\ IdleCall

Running(k) == ~obs.crashed /\ k \in 1..Len(task.w)
CanFault == obs.faults < MaxFaults
Faulted == [obs EXCEPT !.faults = @ + 1]

JobOf(k) == task.downloads[task.w[k].i]
\* the path the worker is filling, through its .tmp name
TargetPath(k) ==
    IF task.w[k].target = "cache" THEN CachePath(JobOf(k)) ELSE DestPath(JobOf(k))

\* downloadFile returned an error: downloadFileWithRetry tries again or gives up
AttemptFailed(wk) ==
    IF wk.tries < maxRetries
    THEN [Worker("begin") EXCEPT !.i = wk.i, !.tries = wk.tries + 1]
    ELSE [Worker("report") EXCEPT !.i = wk.i, !.tries = wk.tries, !.err = TRUE]

AttemptOk(wk) == [Worker("report") EXCEPT !.i = wk.i, !.tries = wk.tries]

\* for i := range work: the idle goroutines being alike, the first one receives
Receive(k) ==
    /\ Running(k)
    /\ task.w[k].pc = "recv"
    /\ \A j \in 1..(k - 1) : task.w[j].pc # "recv"
    /\ task.work # <<>>
    /\ LET i == Head(task.work)
       IN /\ task' = [task EXCEPT !.work = Tail(@),
                         !.w[k] = [Worker("begin") EXCEPT !.i = i, !.tries = 1]]
          /\ obs' = [obs EXCEPT !.late =
                        IF <<task.downloads[i].modName, task.downloads[i].filename>>
                              \in obs.filled
                        THEN @ \cup {i} ELSE @]
    /\ UNCHANGED <<fs, diffVars, mergeVars, runVars, callVars>>

\* every goroutine finds the closed channel empty and ends; wg.Wait(); return
\* results
Return ==
    /\ ~obs.crashed
    /\ ~task.returned
    /\ task.work = <<>>
    /\ \A k \in 1..Len(task.w) : task.w[k].pc = "recv"
    /\ task' = [task EXCEPT !.returned = TRUE,
                   !.w = [k \in 1..Len(task.w) |-> Worker("exit")]]
    /\ UNCHANGED <<fs, obs, diffVars, mergeVars, runVars, callVars>>

\* downloadFile: os.Stat(cachePath) when a cache directory is configured
StatCache(k) ==
    /\ Running(k)
    /\ task.w[k].pc = "begin"
    /\ IF task.cacheDir /\ FsExists(fs, CachePath(JobOf(k)))
       THEN task' = [task EXCEPT !.w[k].pc = "open"]
       ELSE task' = [task EXCEPT !.w[k].pc = "http"]
    /\ UNCHANGED <<fs, obs, diffVars, mergeVars, runVars, callVars>>

\* downloadFile: the GET request and its status
Http(k) ==
    /\ Running(k)
    /\ task.w[k].pc = "http"
    /\ \/ /\ JobOf(k).url = "ok"
          /\ task' = [task EXCEPT !.w[k].pc = "create",
                         !.w[k].target = IF task.cacheDir THEN "cache" ELSE "dest",
                         !.w[k].in = 0]
          /\ obs' = [obs EXCEPT !.http[task.w[k].i] = @ + 1]
       \/ /\ JobOf(k).url # "ok"
          /\ task' = [task EXCEPT !.w[k] = AttemptFailed(@)]
          /\ obs' = [obs EXCEPT !.http[task.w[k].i] = @ + 1]
       \/ /\ JobOf(k).url = "ok"
          /\ CanFault
          /\ task' = [task EXCEPT !.w[k] = AttemptFailed(@)]
          /\ obs' = [Faulted EXCEPT !.http[task.w[k].i] = @ + 1]
    /\ UNCHANGED <<fs, diffVars, mergeVars, runVars, callVars>>

\* copyFile: os.Open(src), src being the cache file
Open(k) ==
    /\ Running(k)
    /\ task.w[k].pc = "open"
    /\ \/ /\ FsExists(fs, CachePath(JobOf(k)))
          /\ task' = [task EXCEPT !.w[k].pc = "create", !.w[k].target = "dest",
                         !.w[k].in = fs.names[CachePath(JobOf(k))]]
          /\ UNCHANGED obs
       \/ /\ CanFault
          /\ task' = [task EXCEPT !.w[k] = AttemptFailed(@)]
          /\ obs' = Faulted
    /\ UNCHANGED <<fs, diffVars, mergeVars, runVars, callVars>>

\* downloadFile and copyFile: os.Create of the .tmp name
Create(k) ==
    /\ Running(k)
    /\ task.w[k].pc = "create"
    /\ \/ /\ fs' = FsCreate(fs, Tmp(TargetPath(k)))
          /\ task' = [task EXCEPT !.w[k].pc = "copy", !.w[k].off = 0,
                         !.w[k].out = fs'.names[Tmp(TargetPath(k))]]
          /\ obs' = [obs EXCEPT !.made[task.w[k].i] =
                        @ \cup {fs'.names[Tmp(TargetPath(k))]}]
       \/ /\ CanFault
          /\ task' = [task EXCEPT !.w[k] = AttemptFailed(@)]
          /\ obs' = Faulted
          /\ UNCHANGED fs
    /\ UNCHANGED <<diffVars, mergeVars, runVars, callVars>>

\* what io.Copy has still to write: the rest of the response body, or of the
\* source file as it is now
Source(k) == IF task.w[k].in = 0 THEN Body(JobOf(k)) ELSE fs.inodes[task.w[k].in]

\* io.Copy, one block at a time, then Close; on an error Close and
\* os.Remove of the .tmp name
Copy(k) ==
    /\ Running(k)
    /\ task.w[k].pc = "copy"
    /\ \/ /\ task.w[k].off < Len(Source(k))
          /\ fs' = FsWriteAt(fs, task.w[k].out, task.w[k].off,
                             Source(k)[task.w[k].off + 1])
          /\ task' = [task EXCEPT !.w[k].off = @ + 1]
          /\ UNCHANGED obs
       \/ /\ task.w[k].off >= Len(Source(k))
          /\ task' = [task EXCEPT !.w[k].pc = "rename"]
          /\ UNCHANGED <<fs, obs>>
       \/ /\ CanFault
          /\ fs' = FsRemove(fs, Tmp(TargetPath(k)))
          /\ task' = [task EXCEPT !.w[k] = AttemptFailed(@)]
          /\ obs' = Faulted
    /\ UNCHANGED <<diffVars, mergeVars, runVars, callVars>>

\* os.Rename of the .tmp name to the path; after the cache file, copyFile
Rename(k) ==
    /\ Running(k)
    /\ task.w[k].pc = "rename"
    /\ \/ /\ FsExists(fs, Tmp(TargetPath(k)))
          /\ fs' = FsRename(fs, Tmp(TargetPath(k)), TargetPath(k))
          /\ task' = [task EXCEPT !.w[k] =
                        IF @.target = "cache"
                        THEN [Worker("open") EXCEPT !.i = task.w[k].i,
                                                    !.tries = task.w[k].tries]
                        ELSE AttemptOk(@)]
       \/ /\ ~FsExists(fs, Tmp(TargetPath(k)))
          /\ task' = [task EXCEPT !.w[k] = AttemptFailed(@)]
          /\ UNCHANGED fs
    /\ UNCHANGED <<obs, diffVars, mergeVars, runVars, callVars>>

\* completed.Add(1) on the atomic counter: the new value
AtomicAdd(counter) == counter + 1

\* results[i] = Result{...}; n := completed.Add(1)
Report(k) ==
    /\ Running(k)
    /\ task.w[k].pc = "report"
    /\ task' = [task EXCEPT !.results[task.w[k].i] = IF task.w[k].err THEN "err" ELSE "ok",
                   !.completed = AtomicAdd(@),
                   !.w[k].n = AtomicAdd(task.completed),
                   !.w[k].pc = "progress"]
    /\ obs' = [obs EXCEPT !.filled =
                  IF ~task.w[k].err /\ task.cacheDir /\ obs.http[task.w[k].i] > 0
                  THEN @ \cup {<<JobOf(k).modName, JobOf(k).filename>>} ELSE @]
    /\ UNCHANGED <<fs, diffVars, mergeVars, runVars, callVars>>

\* onProgress(Progress{Completed: n, Total: total})
OnProgress(k) ==
    /\ Running(k)
    /\ task.w[k].pc = "progress"
    /\ obs' = [obs EXCEPT !.calls = Append(@, [completed |-> task.w[k].n,
                                                total |-> task.total,
                                                job |-> task.w[k].i])]
    /\ task' = [task EXCEPT !.w[k] = Worker("recv")]
    /\ UNCHANGED <<fs, diffVars, mergeVars, runVars, callVars>>

\* the process dies
Crash ==
    /\ ~obs.crashed
    /\ ~task.returned
    /\ obs' = [obs EXCEPT !.crashed = TRUE]
    /\ UNCHANGED <<fs, task, diffVars, mergeVars, runVars, callVars>>

NextDownload ==
    \/ \E k \in 1..DefaultConcurrency :
          \/ Receive(k)
          \/ StatCache(k)
          \/ Http(k)
          \/ Open(k)
          \/ Create(k)
          \/ Copy(k)
          \/ Rename(k)
          \/ Report(k)
          \/ OnProgress(k)
    \/ Return
    \/ Crash

SpecDownload == InitDownload /\ [][NextDownload]_vars

(***************************************************************************)
(* Properties of the downloader.                                           *)
(***************************************************************************)
Jobs == 1..Len(task.downloads)

Complete(path, dl) == FsExists(fs, path) /\ FsData(fs, path) = Body(dl)

\* the path holds what it held when Run was called
AsAtStart(path) ==
    /\ FsExists(fs, path)
    /\ FsExists(obs.start, path)
    /\ FsData(fs, path) = FsData(obs.start, path)

\* the .tmp names that lead to a file the job created or cut
TmpLeftBy(i) == {p \in DOMAIN fs.names : p.tmp /\ fs.names[p] \in obs.made[i]}

\* C12: at every moment of a call of Run, a crash included, the destination
\* path of every job is absent, holds what it held before, or holds the
\* complete body; so does the cache path.
C12_NoPartialFileAtDest ==
    \A i \in Jobs :
      /\ \/ ~FsExists(fs, DestPath(task.downloads[i]))
         \/ AsAtStart(DestPath(task.downloads[i]))
         \/ Complete(DestPath(task.downloads[i]), task.downloads[i])
      /\ \/ ~FsExists(fs, CachePath(task.downloads[i]))
         \/ Complete(CachePath(task.downloads[i]), task.downloads[i])

\* the process died while a .tmp name held a part of a body
C12_CrashedWithPartialTmp ==
    /\ obs.crashed
    /\ \E p \in DOMAIN fs.names :
          /\ p.tmp
          /\ Len(fs.inodes[fs.names[p]]) \in 1..(BodyLen - 1)

\* C13: for every job whose result is a success, the destination path holds
\* the complete body and no .tmp file of that job is left.
C13_SuccessMeansCompleteDest ==
    \A i \in Jobs :
      task.results[i] = "ok" =>
        /\ Complete(DestPath(task.downloads[i]), task.downloads[i])
        /\ TmpLeftBy(i) = {}

\* a job that fetched the body over HTTP reported success
C13_DownloadedJobSucceeded ==
    \E i \in Jobs : task.results[i] = "ok" /\ obs.http[i] > 0

\* two jobs of the call have the same (mod, filename) and there is more than
\* one goroutine
SharedPair ==
    /\ Len(task.w) > 1
    /\ \E i, j \in Jobs :
          /\ i # j
          /\ task.downloads[i].modName = task.downloads[j].modName
          /\ task.downloads[i].filename = task.downloads[j].filename

\* C14: when Run returns after concurrent fetches of one (mod, filename), every
\* job that reported success has its destination file complete and, with a
\* cache directory, its cache file complete.
C14_ConcurrentSamePairSafe ==
    (task.returned /\ SharedPair) =>
      \A i \in Jobs :
        task.results[i] = "ok" =>
          /\ Complete(DestPath(task.downloads[i]), task.downloads[i])
          /\ task.cacheDir => Complete(CachePath(task.downloads[i]), task.downloads[i])

\* Run returned after two goroutines fetched the same (mod, filename) over
\* HTTP and both reported success
C14_BothFetchedSamePair ==
    /\ task.returned
    /\ SharedPair
    /\ \A i \in Jobs : task.results[i] = "ok" /\ obs.http[i] > 0

\* C15: Run returns one result per job, each a success or a failure; the
\* progress callback has then run once per job, each time with total the
\* number of jobs, and completed has taken each value of 1..total once.  No
\* job and no value of completed is reported twice before that either.
C15_OneResultAndOneCallbackPerJob ==
    /\ \A a, b \in 1..Len(obs.calls) :
          a # b => /\ obs.calls[a].job # obs.calls[b].job
                   /\ obs.calls[a].completed # obs.calls[b].completed
    /\ \A a \in 1..Len(obs.calls) :
          /\ obs.calls[a].total = Len(task.downloads)
          /\ obs.calls[a].completed \in 1..Len(task.downloads)
          /\ task.results[obs.calls[a].job] \in {"ok", "err"}
    /\ task.returned =>
          /\ Len(task.results) = Len(task.downloads)
          /\ \A i \in Jobs : task.results[i] \in {"ok", "err"}
          /\ {obs.calls[a].job : a \in 1..Len(obs.calls)} = Jobs
          /\ {obs.calls[a].completed : a \in 1..Len(obs.calls)} = Jobs

\* Run returned two results, a success and a failure, with two goroutines,
\* and the callback saw completed = 2 before completed = 1
C15_ReturnedSuccessAndFailure ==
    /\ task.returned
    /\ Len(task.w) > 1
    /\ \E i, j \in Jobs : task.results[i] = "ok" /\ task.results[j] = "err"
    /\ Len(obs.calls) = 2
    /\ obs.calls[1].completed = 2

\* C16: with a cache directory, once a job that missed the cache has
\* downloaded with success, the cache holds the complete file under
\* (mod, filename), and no job for that pair received after it issues an
\* HTTP request.
C16_CacheFilledThenServed ==
    /\ \A i \in Jobs :
          <<task.downloads[i].modName, task.downloads[i].filename>> \in obs.filled =>
             Complete(CachePath(task.downloads[i]), task.downloads[i])
    /\ \A j \in obs.late : obs.http[j] = 0

\* a job received after the cache was filled for its pair reported success
C16_LaterJobServedFromCache ==
    \E j \in obs.late : task.results[j] = "ok"

(***************************************************************************)
(* Properties of the pack-file merge.                                      *)
(***************************************************************************)
\* the files of the game directory and the base the merge started from
UserFiles == hist.preMerge.files
BaseHash(p) == lookupBaseHash(PreState.configHashes, p)
BaseContent(p) ==
    LET old == OldPack(world.packs, PreState.configVersion)
    IN IF old.ok /\ p \in DOMAIN old.files THEN Bytes(old.files[p]) ELSE NoBase

\* the merge left no <p>.packnew that was not there before
PacknewAsBefore(p) ==
    /\ p \in DOMAIN disk.packnew <=> p \in DOMAIN hist.preMerge.packnew
    /\ p \in DOMAIN disk.packnew => disk.packnew[p] = hist.preMerge.packnew[p]

WroteNew(p) ==
    /\ p \in DOMAIN disk.files
    /\ disk.files[p] = NewPackFiles[p]
    /\ PacknewAsBefore(p)

Untouched(p) ==
    /\ p \in DOMAIN disk.files
    /\ disk.files[p] = UserFiles[p]
    /\ PacknewAsBefore(p)

\* base, user and new hash of p exist and are three different hashes
AllThreeDiffer(p) ==
    /\ BaseHash(p).ok
    /\ p \in DOMAIN UserFiles
    /\ hashBytes(UserFiles[p]) # BaseHash(p).hash
    /\ hashBytes(NewPackFiles[p]) # BaseHash(p).hash
    /\ hashBytes(UserFiles[p]) # hashBytes(NewPackFiles[p])

\* the file is what the three-way merge of base, new and user content gives:
\* the merged content, or on a conflict the user's file beside <p>.packnew
ThreeWayMerged(p) ==
    LET r == mergeFile(p, BaseContent(p), NewPackFiles[p], UserFiles[p])
    IN IF Len(r.conflicts) = 0
       THEN /\ p \in DOMAIN disk.files
            /\ disk.files[p] = r.merged
            /\ PacknewAsBefore(p)
       ELSE /\ p \in DOMAIN disk.files
            /\ disk.files[p] = UserFiles[p]
            /\ p \in DOMAIN disk.packnew
            /\ disk.packnew[p] = NewPackFiles[p]

\* C21: after the config merge, every file p of the new pack is in the state
\* its row of the decision matrix gives: no base hash, new content written;
\* user file missing, new content written; user hash equal to base hash, new
\* content written; new hash equal to base hash, user's file untouched; user
\* hash equal to new hash, nothing written; all three different, the
\* three-way merge.
C21_DecisionMatrix ==
    hist.merged =>
      \A p \in DOMAIN NewPackFiles :
        IF ~BaseHash(p).ok THEN WroteNew(p)
        ELSE IF p \notin DOMAIN UserFiles THEN WroteNew(p)
        ELSE IF hashBytes(UserFiles[p]) = BaseHash(p).hash THEN WroteNew(p)
        ELSE IF hashBytes(NewPackFiles[p]) = BaseHash(p).hash THEN Untouched(p)
        ELSE IF hashBytes(UserFiles[p]) = hashBytes(NewPackFiles[p]) THEN Untouched(p)
        ELSE ThreeWayMerged(p)

\* the merge ran over a pack with a file that has no base hash and a file the
\* pack changed while the user did not
C21_NewFileAndUpdatedFile ==
    /\ hist.merged
    /\ \E p, q \in DOMAIN NewPackFiles :
          /\ ~BaseHash(p).ok
          /\ BaseHash(q).ok
          /\ q \in DOMAIN UserFiles
          /\ hashBytes(UserFiles[q]) = BaseHash(q).hash
          /\ hashBytes(NewPackFiles[q]) # BaseHash(q).hash

\* C22: when base, user and new hash of a file all differ and the old pack
\* gives no base content for it, the merge keeps the user's file, writes the
\* pack's content to <p>.packnew and lists the file as a conflict.
C22_NoBaseContentIsConflict ==
    hist.merged =>
      \A p \in DOMAIN NewPackFiles :
        (AllThreeDiffer(p) /\ BaseContent(p).nil) =>
           /\ p \in DOMAIN disk.files
           /\ disk.files[p] = UserFiles[p]
           /\ p \in DOMAIN disk.packnew
           /\ disk.packnew[p] = NewPackFiles[p]
           /\ p \in Range(proc.conflictFiles)
           /\ proc.conflictFiles # <<>>

\* the merge ran without the old pack over a file whose three hashes differ
\* and whose three-way merge would have had no conflict
C22_MergedWithoutOldPack ==
    /\ hist.merged
    /\ \E p \in DOMAIN NewPackFiles :
          /\ AllThreeDiffer(p)
          /\ BaseContent(p).nil
          /\ Len(mergeFile(p, Bytes(Contents(p).old), NewPackFiles[p],
                           UserFiles[p]).conflicts) = 0

(***************************************************************************)
(* Properties of the latest-version resolver.                              *)
(***************************************************************************)
\* the run is past resolveLatestVersions and has not touched its inputs
LatestResolved == world.opts.Latest /\ proc.pc = "computed"

\* the change list diff.Compute gave the resolver
Computed ==
    Compute(proc.state.mods, proc.state.side, AllMods(world.manifest),
            proc.state.excludeMods, proc.resolvedExtras)

\* the change c after pass 1, after pass 2 and after pass 3
AfterPass1(c) == LatestPass1(world.db, c, proc.extraDownloads)
AfterPass2(c) == LatestPass2(world.db, AfterPass1(c), proc.extraDownloads, world.net)
AfterPass3(c) ==
    IF LatestPass3Hit(world.db, AfterPass2(c), proc.extraDownloads,
                      world.opts.GithubToken, world.net)
    THEN Override(AfterPass2(c), world.net.github[c.name])
    ELSE AfterPass2(c)

\* C23: once the latest-version resolver has returned, no change is Updated
\* with its old version equal to its new version, and every change the passes
\* left as Updated with equal versions is Unchanged.
C23_NoUpdatedWithEqualVersions ==
    LatestResolved =>
      /\ Len(proc.changes) = Len(Computed)
      /\ \A i \in 1..Len(proc.changes) :
            /\ ~(proc.changes[i].type = "Updated"
                   /\ proc.changes[i].old = proc.changes[i].new)
            /\ (AfterPass3(Computed[i]).type = "Updated"
                  /\ AfterPass3(Computed[i]).old = AfterPass3(Computed[i]).new)
               => proc.changes[i].type = "Unchanged"

\* the resolver returned after its passes had brought the target of an
\* Updated change back to the installed version
C23_UpdateCollapsed ==
    /\ LatestResolved
    /\ \E i \in 1..Len(Computed) :
          /\ Computed[i].type = "Updated"
          /\ AfterPass3(Computed[i]).type = "Updated"
          /\ AfterPass3(Computed[i]).old = AfterPass3(Computed[i]).new

\* one pass took the change from c to d: a Removed change is the same, and
\* the kind is the same or went from Unchanged to Updated
PassKeeps(c, d) ==
    /\ c.type = "Removed" => d = c
    /\ d.type = c.type \/ (c.type = "Unchanged" /\ d.type = "Updated")
    /\ d.name = c.name /\ d.old = c.old /\ d.side = c.side

\* C24: through the three passes of the resolver a Removed change is the
\* same change, and a pass leaves the kind of a change or turns Unchanged into
\* Updated; a Removed change is still the same in the list the resolver
\* returns.
C24_PassesKeepRemovedAndOnlyPromote ==
    LatestResolved =>
      \A i \in 1..Len(Computed) :
        /\ PassKeeps(Computed[i], AfterPass1(Computed[i]))
        /\ PassKeeps(AfterPass1(Computed[i]), AfterPass2(Computed[i]))
        /\ PassKeeps(AfterPass2(Computed[i]), AfterPass3(Computed[i]))
        /\ Computed[i].type = "Removed" => proc.changes[i] = Computed[i]

\* the resolver returned a list with a Removed change of a mod the package
\* index has versions of, and a change a pass turned from Unchanged to Updated
C24_RemovedKeptAndUnchangedPromoted ==
    /\ LatestResolved
    /\ \E i, j \in 1..Len(Computed) :
          /\ Computed[i].type = "Removed"
          /\ LatestNonPreVersion(world.db, Computed[i].name) # NoVer
          /\ Computed[j].type = "Unchanged"
          /\ AfterPass3(Computed[j]).type = "Updated"

(***************************************************************************)
(* refreshTrackedMods on its own: the tracked mods of a loaded state, the  *)
(* mode the state records, a package index, the manifest's mods, and a     *)
(* mods directory with jars at its top level and in a subdirectory.        *)
(***************************************************************************)
TrackedEntries ==
    {InstalledMod(1, DbFilename("a", 1), "BOTH"),
     InstalledMod(2, DbFilename("a", 2), "CLIENT"),
     InstalledMod(MaxVer + 1, File("a", MaxVer + 1, "gh"), "BOTH"),
     InstalledMod(1, NoFile, "BOTH")}

ScanInputs ==
    [mods : {NoMods} \cup {[n \in {"a"} |-> e] : e \in TrackedEntries},
     mode : {"daily", "experimental"},
     db : Dbs,
     manifestMods : {<<>>, [a |-> ModInfo(2, "BOTH")], [a |-> ModInfo(2, "CLIENT")]},
     top : SUBSET {DbFilename("a", 1), DbFilename("a", 2), File("a", MaxVer + 1, "gh")},
     sub : SUBSET {DbFilename("a", 1), DbFilename("a", 2)}]

InitScan ==
    /\ fIn \in ScanInputs
    /\ fOut = [done |-> FALSE, mods |-> NoMods]
    /\ dIn = NoCall /\ dOut = NoCall /\ mIn = NoCall /\ mOut = NoCall
    /\ IdleRun
    /\ IdleFiles

RescanCall ==
    /\ ~fOut.done
    /\ fOut' = [done |-> TRUE,
                mods |-> refreshTrackedMods(fIn.mods, fIn.mode, fIn.db, fIn.manifestMods,
                                            fIn.top, fIn.sub)]
    /\ UNCHANGED <<fIn, diffVars, mergeVars, runVars, fileVars>>

NextScan == RescanCall

SpecScan == InitScan /\ [][NextScan]_vars

(***************************************************************************)
(* Properties of the rescan.                                               *)
(***************************************************************************)
\* the run has rescanned the mods directory and not yet removed a jar
Rescanned == proc.pc \in {"refreshed", "computed"}

\* the state file named a jar for n that the run found in the mods directory
RecordedFileExists(n) ==
    /\ n \in DOMAIN PreState.mods
    /\ PreState.mods[n].filename # NoFile
    /\ PreState.mods[n].filename \in hist.pre.modsDir

\* no filename of the package index is the jar recorded for n
Unidentified(n) == FilenameMatches(world.db, PreState.mods[n].filename) = <<>>

\* C25: a tracked mod whose recorded jar is in the mods directory is tracked
\* after the rescan, with the entry the state file had when the scan cannot
\* identify the jar and found no other jar of the mod, and the change list of
\* that run has no Added change for it.
C25_RecordedFileStaysTracked ==
    Rescanned =>
      \A n \in Names :
        RecordedFileExists(n) =>
          /\ n \in DOMAIN hist.scanned
          /\ (Unidentified(n)
                /\ n \notin DOMAIN scanInstalledMods(hist.pre.modsDir, hist.pre.modsSub,
                                      world.db, AllMods(world.manifest), {}, PreState.mode))
             => hist.scanned[n] = PreState.mods[n]
          /\ proc.pc = "computed" =>
               \A i \in 1..Len(proc.changes) :
                  ~(proc.changes[i].name = n /\ proc.changes[i].type = "Added")

\* the next update after one that installed a version newer than every
\* version of the package index: the jar is in the mods directory, the scan
\* cannot identify it, and the change list is computed
C25_NewerThanIndexOnNextUpdate ==
    /\ proc.run = 2
    /\ proc.pc = "computed"
    /\ \E n \in Names :
          /\ RecordedFileExists(n)
          /\ Unidentified(n)
          /\ LookupMod(world.db, n)
          /\ \A i \in 1..Len(world.db[n].versions) :
                PreState.mods[n].version > world.db[n].versions[i].tag

\* C26: after the rescan every tracked entry names a jar of the top level of
\* the mods directory, and a tracked entry whose jar is not there is not
\* carried over.
C26_TrackedFilesAreTopLevel ==
    fOut.done =>
      /\ \A n \in DOMAIN fOut.mods : fOut.mods[n].filename \in fIn.top
      /\ \A n \in DOMAIN fIn.mods :
            (fIn.mods[n].filename \notin fIn.top /\ n \in DOMAIN fOut.mods)
               => fOut.mods[n] # fIn.mods[n]

\* the rescan of a mods directory whose only jar is in the subdirectory
C26_JarOnlyInSubdirectory ==
    /\ fOut.done
    /\ fIn.top = {}
    /\ fIn.sub # {}
    /\ DOMAIN fOut.mods # {}

(***************************************************************************)
(* Properties of the structured-document merge.                            *)
(***************************************************************************)
\* the top-level objects MergeJSON merged and the object it returned
BaseObj == Unmarshal(mIn.base).m
TheirsObj == Unmarshal(mIn.theirs).m
OursObj == Unmarshal(mIn.ours).m
MergedObj == Unmarshal(mOut.merged).m

JsonMerged ==
    /\ mOut.done
    /\ EffectiveMerger(mIn) = "json"
    /\ IsMap(Unmarshal(mIn.base)) /\ IsMap(Unmarshal(mIn.theirs))
    /\ IsMap(Unmarshal(mIn.ours))

RemovedByUserChangedByPack(k) ==
    /\ k \in DOMAIN BaseObj /\ k \in DOMAIN TheirsObj /\ k \notin DOMAIN OursObj
    /\ BaseObj[k] # TheirsObj[k]

\* C27: in the merge of three objects a key only the pack added and a key
\* only the user added are in the result with the value of that side, a key
\* both sides removed is not in the result, and a key the user removed and the
\* pack changed is in the result with the pack's value and has a conflict.
C27_AddedRemovedKeys ==
    JsonMerged =>
      \A k \in DOMAIN BaseObj \cup DOMAIN TheirsObj \cup DOMAIN OursObj :
        /\ (k \notin DOMAIN BaseObj /\ k \in DOMAIN TheirsObj /\ k \notin DOMAIN OursObj)
           => (k \in DOMAIN MergedObj /\ MergedObj[k] = TheirsObj[k])
        /\ (k \notin DOMAIN BaseObj /\ k \notin DOMAIN TheirsObj /\ k \in DOMAIN OursObj)
           => (k \in DOMAIN MergedObj /\ MergedObj[k] = OursObj[k])
        /\ (k \in DOMAIN BaseObj /\ k \notin DOMAIN TheirsObj /\ k \notin DOMAIN OursObj)
           => k \notin DOMAIN MergedObj
        /\ RemovedByUserChangedByPack(k)
           => /\ k \in DOMAIN MergedObj /\ MergedObj[k] = TheirsObj[k]
              /\ \E i \in 1..Len(mOut.conflicts) :
                    mOut.conflicts[i] = KeyConflict(<<k>>, "user removed but pack changed")

\* the merge of objects in which the pack added one key and the user removed
\* the other, which the pack changed
C27_PackAddedAndUserRemovedChanged ==
    /\ JsonMerged
    /\ \E k, j \in DOMAIN TheirsObj :
          /\ k \notin DOMAIN BaseObj /\ k \notin DOMAIN OursObj
          /\ RemovedByUserChangedByPack(j)

(***************************************************************************)
(* Save followed by Load on its own: the state a caller hands to Save,     *)
(* with maps and slices that are nil, empty or filled.                     *)
(***************************************************************************)
StateInputs ==
    {WithNil(LocalState(sd, mode, 1, md, hashes, mods, excl, extras), nils) :
        sd \in {"", "client", "server"},
        mode \in {"", "daily", "experimental", "client", "Client"},
        md \in {"", "d1"},
        hashes \in {<<>>, PlainHashes},
        mods \in {NoMods, [a |-> Jar("a", 1)]},
        excl \in {{}, {"a"}},
        extras \in {NoExtras, [a |-> ExtraSpec(1, "url", "BOTH")]},
        nils \in SUBSET {"configHashes", "mods", "excludeMods", "extraMods"}}

\* a nil map or slice has no entries
WellFormed(st) ==
    /\ "configHashes" \in st.nil => st.configHashes = <<>>
    /\ "mods" \in st.nil => st.mods = NoMods
    /\ "excludeMods" \in st.nil => st.excludeMods = {}
    /\ "extraMods" \in st.nil => st.extraMods = NoExtras

InitState ==
    /\ fIn \in {st \in StateInputs : WellFormed(st)}
    /\ fOut = [done |-> FALSE, state |-> fIn]
    /\ dIn = NoCall /\ dOut = NoCall /\ mIn = NoCall /\ mOut = NoCall
    /\ IdleRun
    /\ IdleFiles

\* s.Save(dir) and then Load(dir): the bytes Load reads are those Save wrote
SaveLoadCall ==
    /\ ~fOut.done
    /\ fOut' = [done |-> TRUE, state |-> Load(Marshal(fIn))]
    /\ UNCHANGED <<fIn, diffVars, mergeVars, runVars, fileVars>>

NextState == SaveLoadCall

SpecState == InitState /\ [][NextState]_vars

\* C28: the state Load returns after Save has every field with the value
\* that was saved, and its maps are not nil.
C28_SaveLoadRoundTrip ==
    fOut.done =>
      /\ fOut.state.side = fIn.side
      /\ fOut.state.mode = fIn.mode
      /\ fOut.state.manifestDate = fIn.manifestDate
      /\ fOut.state.configVersion = fIn.configVersion
      /\ fOut.state.configHashes = fIn.configHashes
      /\ fOut.state.mods = fIn.mods
      /\ fOut.state.excludeMods = fIn.excludeMods
      /\ fOut.state.extraMods = fIn.extraMods
      /\ fOut.state.nil \cap {"configHashes", "mods", "extraMods"} = {}

\* Save and Load of a state with no side, the mode "client" and nil maps
C28_SavedModeNamesASide ==
    /\ fOut.done
    /\ fIn.side = ""
    /\ fIn.mode = "client"
    /\ {"configHashes", "mods"} \subseteq fIn.nil

(***************************************************************************)
(* ParseCfg followed by writeCfg on its own, on files with a preamble,     *)
(* two categories in either order, comments before a header, before an     *)
(* entry and after the last entry, a nested category and blank lines.      *)
(***************************************************************************)
Opt(present, c) == IF present THEN c ELSE <<>>

CfgC1(hdr, cmt, j) ==
    Opt(hdr, <<Cmt("#c1"), NL>>) \o <<CatOpen("c1"), NL>>
      \o Opt(cmt, <<Cmt("#k"), NL>>) \o <<KV("k", 1), NL>>
      \o Opt(j, <<KV("j", 2), NL>>) \o <<CatClose, NL>>

CfgC2(hdr, nested, tail) ==
    Opt(hdr, <<Cmt("#c2"), NL>>) \o <<CatOpen("c2"), NL, KV("k", 3), NL>>
      \o Opt(nested, <<CatOpen("sub"), NL, KV("j", 1), NL, CatClose, NL>>)
      \o Opt(tail, <<Cmt("#tail"), NL>>) \o <<CatClose, NL>>

CfgTexts ==
    {Opt(pre, <<Txt("~preamble"), NL>>)
       \o (CASE order = 1 -> CfgC1(h1, cmt, j) \o Opt(sep, <<NL>>) \o CfgC2(h2, nested, tail)
              [] order = 2 -> CfgC2(h2, nested, tail) \o Opt(sep, <<NL>>) \o CfgC1(h1, cmt, j)
              [] OTHER -> CfgC1(h1, cmt, j) \o Opt(sep, <<NL>>)) :
        pre \in BOOLEAN, order \in 1..3, h1 \in BOOLEAN, cmt \in BOOLEAN, j \in BOOLEAN,
        h2 \in BOOLEAN, nested \in BOOLEAN, tail \in BOOLEAN, sep \in BOOLEAN}

InitCfg ==
    /\ fIn \in [text : CfgTexts]
    /\ fOut = [done |-> FALSE, text |-> <<>>]
    /\ dIn = NoCall /\ dOut = NoCall /\ mIn = NoCall /\ mOut = NoCall
    /\ IdleRun
    /\ IdleFiles

RenderCall ==
    /\ ~fOut.done
    /\ fOut' = [done |-> TRUE, text |-> writeCfg(ParseCfg(fIn.text))]
    /\ UNCHANGED <<fIn, diffVars, mergeVars, runVars, fileVars>>

NextCfg == RenderCall

SpecCfg == InitCfg /\ [][NextCfg]_vars

\* the file that was parsed and the rendered file, parsed
Parsed == ParseCfg(fIn.text)
Rendered == ParseCfg(fOut.text)

CatNames(cfg) == [i \in 1..Len(cfg.categories) |-> cfg.categories[i].name]
NonBlank(lines) == SelectSeq(lines, LAMBDA l : l # <<>>)
KVLines(c) == SelectSeq(c, LAMBDA tok : Has(tok, "key"))

\* the rendered category at position i has the comments and the entries of c
SameCategory(i, c) ==
    /\ Rendered.categories[i].name = c.name
    /\ NonBlank(Rendered.categories[i].comments) = NonBlank(c.comments)
    /\ Rendered.categories[i].entries = c.entries

\* the rendered file has the categories cats, in that order, each with its
\* comments and its entries, and the preamble of the file
RendersAs(cats) ==
    /\ Rendered.preamble = Parsed.preamble
    /\ Len(Rendered.categories) = Len(cats)
    /\ \A i \in 1..Len(cats) : SameCategory(i, cats[i])
    /\ KVLines(fOut.text) =
          FlatMap(LAMBDA c : [e \in 1..Len(c.entries) |->
                                KV(c.entries[e].key, c.entries[e].value)], cats)

\* C29 as amended: the rendered file has the categories of the parsed file
\* sorted by name, each with the comments before its header, and its entries
\* in the order of the file with their comments, keys and values.
C29_RenderSortsCategories ==
    fOut.done => RendersAs(SortCats(Parsed.categories))

\* C29: the rendered file has the categories of the parsed file in the order
\* of the file, each with its comments and its key=value lines.
C29_RenderKeepsCategoryOrder ==
    fOut.done => RendersAs(Parsed.categories)

\* a file was rendered that has the category c2 before c1, comments before a
\* header and before an entry
C29_RenderedUnsortedFile ==
    /\ fOut.done
    /\ CatNames(Parsed) = <<"c2", "c1">>
    /\ Parsed.categories[1].comments # <<>>
    /\ \E e \in 1..Len(Parsed.categories[2].entries) :
          Parsed.categories[2].entries[e].comments # <<>>

(***************************************************************************)
(* Package semver: Parse, Compare, compareNatural, compareNumericRuns,     *)
(* comparePreRelease, splitTrailingNumber.  A version string is the        *)
(* sequence of its characters.                                             *)
(***************************************************************************)
\* the byte of a character
Byte(ch) ==
    CASE ch = "+" -> 43
      [] ch = "-" -> 45
      [] ch = "." -> 46
      [] ch = "0" -> 48
      [] ch = "1" -> 49
      [] ch = "2" -> 50
      [] ch = "9" -> 57
      [] ch = "a" -> 97
      [] ch = "b" -> 98
      [] ch = "v" -> 118

IsDigit(ch) == Byte(ch) >= Byte("0") /\ Byte(ch) <= Byte("9")

\* strings.IndexByte, counting positions from 1; 0 when ch is not in s
IndexByte(s, ch) ==
    IF \E i \in 1..Len(s) : s[i] = ch
    THEN CHOOSE i \in 1..Len(s) : s[i] = ch /\ \A h \in 1..(i - 1) : s[h] # ch
    ELSE 0

TrimPrefix(s, prefix) ==
    IF Len(s) >= Len(prefix) /\ SubSeq(s, 1, Len(prefix)) = prefix
    THEN SubSeq(s, Len(prefix) + 1, Len(s))
    ELSE s

\* strings.Split(s, sep) for a separator of one character
RECURSIVE Split(_, _)
Split(s, sep) ==
    LET i == IndexByte(s, sep)
    IN IF i = 0 THEN <<s>>
       ELSE <<SubSeq(s, 1, i - 1)>> \o Split(SubSeq(s, i + 1, Len(s)), sep)

RECURSIVE DigitsValue(_)
DigitsValue(s) ==
    IF s = <<>> THEN 0
    ELSE DigitsValue(SubSeq(s, 1, Len(s) - 1)) * 10 + (Byte(s[Len(s)]) - Byte("0"))

\* strconv.Atoi: an optional sign and at least one digit
Atoi(s) ==
    LET signed == s # <<>> /\ s[1] \in {"+", "-"}
        digits == IF signed THEN Tail(s) ELSE s
    IN IF digits = <<>> \/ \E i \in 1..Len(digits) : ~IsDigit(digits[i])
       THEN [ok |-> FALSE, n |-> 0]
       ELSE [ok |-> TRUE,
             n |-> IF signed /\ s[1] = "-" THEN 0 - DigitsValue(digits)
                   ELSE DigitsValue(digits)]

\* semver.Parse; isNil: parts is nil
Parse(raw) ==
    LET v == TrimPrefix(raw, <<"v">>)
        firstDot == Split(v, ".")[1]
        idx == IndexByte(firstDot, "-")
        cut == IF idx > 1
               THEN IF Atoi(SubSeq(firstDot, 1, idx - 1)).ok /\ IndexByte(v, "-") > 1
                    THEN IndexByte(v, "-") ELSE 0
               ELSE IF Atoi(firstDot).ok THEN IndexByte(v, "-") ELSE 0
        pre == IF cut = 0 THEN <<>> ELSE SubSeq(v, cut, Len(v))
        num == IF cut = 0 THEN v ELSE SubSeq(v, 1, cut - 1)
        segs == Split(num, ".")
        allNumeric == \A i \in 1..Len(segs) : Atoi(segs[i]).ok
    IN [parts |-> IF allNumeric THEN [i \in 1..Len(segs) |-> Atoi(segs[i]).n] ELSE <<>>,
        isNil |-> ~allNumeric, pre |-> pre, raw |-> raw]

\* strings.Compare
RECURSIVE StringsCompare(_, _)
StringsCompare(a, b) ==
    IF a = <<>> /\ b = <<>> THEN 0
    ELSE IF a = <<>> THEN 0 - 1
    ELSE IF b = <<>> THEN 1
    ELSE IF Byte(a[1]) < Byte(b[1]) THEN 0 - 1
    ELSE IF Byte(a[1]) > Byte(b[1]) THEN 1
    ELSE StringsCompare(Tail(a), Tail(b))

\* strings.TrimLeft(s, "0")
RECURSIVE TrimLeftZeros(_)
TrimLeftZeros(s) ==
    IF s # <<>> /\ s[1] = "0" THEN TrimLeftZeros(Tail(s)) ELSE s

compareNumericRuns(a, b) ==
    LET x == IF TrimLeftZeros(a) = <<>> THEN <<"0">> ELSE TrimLeftZeros(a)
        y == IF TrimLeftZeros(b) = <<>> THEN <<"0">> ELSE TrimLeftZeros(b)
    IN IF Len(x) < Len(y) THEN 0 - 1
       ELSE IF Len(x) > Len(y) THEN 1
       ELSE StringsCompare(x, y)

\* the end of the run of digits of s that starts at i: the first position
\* from i on that holds no digit
RECURSIVE RunEnd(_, _)
RunEnd(s, i) == IF i <= Len(s) /\ IsDigit(s[i]) THEN RunEnd(s, i + 1) ELSE i

\* the loop of compareNatural, from the positions i and j
RECURSIVE NaturalFrom(_, _, _, _)
NaturalFrom(a, b, i, j) ==
    IF i <= Len(a) /\ j <= Len(b)
    THEN IF IsDigit(a[i]) /\ IsDigit(b[j])
         THEN LET i2 == RunEnd(a, i)
                  j2 == RunEnd(b, j)
                  cmp == compareNumericRuns(SubSeq(a, i, i2 - 1), SubSeq(b, j, j2 - 1))
              IN IF cmp # 0 THEN cmp ELSE NaturalFrom(a, b, i2, j2)
         ELSE IF a[i] # b[j]
         THEN IF Byte(a[i]) < Byte(b[j]) THEN 0 - 1 ELSE 1
         ELSE NaturalFrom(a, b, i + 1, j + 1)
    ELSE IF i = Len(a) + 1 /\ j = Len(b) + 1 THEN 0
    ELSE IF i = Len(a) + 1 THEN 0 - 1
    ELSE 1

compareNatural(a, b) == NaturalFrom(a, b, 1, 1)

\* the text and the trailing number of a pre-release suffix
splitTrailingNumber(s) ==
    LET i == CHOOSE k \in 0..Len(s) :
                /\ \A h \in (k + 1)..Len(s) : IsDigit(s[h])
                /\ k > 0 => ~IsDigit(s[k])
    IN IF i = Len(s) THEN [text |-> s, num |-> 0]
       ELSE [text |-> SubSeq(s, 1, i), num |-> Atoi(SubSeq(s, i + 1, Len(s))).n]

\* a comparison of suffixes that puts its first argument first whenever the
\* texts differ
comparePreReleaseFirstWins(a, b) ==
    IF splitTrailingNumber(a).text # splitTrailingNumber(b).text THEN 0 - 1
    ELSE IF splitTrailingNumber(a).num < splitTrailingNumber(b).num THEN 0 - 1
    ELSE IF splitTrailingNumber(a).num > splitTrailingNumber(b).num THEN 1
    ELSE 0

comparePreRelease(a, b) ==
    LET x == splitTrailingNumber(a)
        y == splitTrailingNumber(b)
        cmp == StringsCompare(x.text, y.text)
    IN IF cmp # 0 THEN cmp
       ELSE IF x.num < y.num THEN 0 - 1
       ELSE IF x.num > y.num THEN 1
       ELSE 0

PartAt(parts, i) == IF i <= Len(parts) THEN parts[i] ELSE 0

\* the comparison of two parsed versions
CompareParsed(pa, pb) ==
    IF pa.isNil /\ pb.isNil THEN compareNatural(pa.raw, pb.raw)
    ELSE IF pa.isNil THEN 0 - 1
    ELSE IF pb.isNil THEN 1
    ELSE LET maxLen == Max(Len(pa.parts), Len(pb.parts))
             differ == {i \in 1..maxLen : PartAt(pa.parts, i) # PartAt(pb.parts, i)}
         IN IF differ # {}
            THEN LET i == CHOOSE k \in differ : \A h \in differ : k <= h
                 IN IF PartAt(pa.parts, i) < PartAt(pb.parts, i) THEN 0 - 1 ELSE 1
            ELSE IF pa.pre = <<>> /\ pb.pre = <<>> THEN 0
            ELSE IF pa.pre # <<>> /\ pb.pre = <<>> THEN 0 - 1
            ELSE IF pa.pre = <<>> /\ pb.pre # <<>> THEN 1
            ELSE comparePreRelease(pa.pre, pb.pre)

Compare(a, b) == CompareParsed(Parse(a), Parse(b))

(***************************************************************************)
(* Compare on its own, on three version strings.                           *)
(***************************************************************************)
VersionStrings ==
    {<<"1", ".", "2">>, <<"1", ".", "2", ".", "0">>, <<"v", "1", ".", "2">>,
     <<"1", ".", "1", "0">>, <<"1", ".", "9">>, <<"0", "1", ".", "2">>,
     <<"1", ".", "2", "-", "a">>, <<"1", ".", "2", "-", "a", "2">>,
     <<"1", ".", "2", "-", "a", "1", "0">>, <<"1", ".", "2", "-", "b">>,
     <<"1", "-", "b", ".", "2">>, <<"1", ".", "2", "-", "a", "0", "2">>,
     <<"a", "9">>, <<"a", "1", "0">>, <<"a", "0", "9">>, <<"a">>, <<"a", "-", "1">>,
     <<"1", ".", "a">>, <<"-", "1", ".", "2">>, <<"v">>, <<>>}

InitSemver ==
    /\ fIn \in [a : VersionStrings, b : VersionStrings, c : VersionStrings]
    /\ fOut = [done |-> FALSE, ab |-> 0, ba |-> 0, aa |-> 0, bc |-> 0, ac |-> 0]
    /\ dIn = NoCall /\ dOut = NoCall /\ mIn = NoCall /\ mOut = NoCall
    /\ IdleRun
    /\ IdleFiles

CompareCall ==
    /\ ~fOut.done
    /\ fOut' = [done |-> TRUE,
                ab |-> Compare(fIn.a, fIn.b), ba |-> Compare(fIn.b, fIn.a),
                aa |-> Compare(fIn.a, fIn.a), bc |-> Compare(fIn.b, fIn.c),
                ac |-> Compare(fIn.a, fIn.c)]
    /\ UNCHANGED <<fIn, diffVars, mergeVars, runVars, fileVars>>

NextSemver == CompareCall

SpecSemver == InitSemver /\ [][NextSemver]_vars

\* C30: for all version strings a, b and c, Compare(a, b) is the negation of
\* Compare(b, a), Compare(a, a) is 0, and Compare(a, b) <= 0 with
\* Compare(b, c) <= 0 gives Compare(a, c) <= 0.
C30_CompareIsConsistentOrder ==
    fOut.done =>
      /\ fOut.ab = 0 - fOut.ba
      /\ fOut.aa = 0
      /\ (fOut.ab <= 0 /\ fOut.bc <= 0) => fOut.ac <= 0

\* Compare has put a string that is no version below a pre-release, and the
\* pre-release below another pre-release of the same numbers
C30_NonVersionBelowPreReleases ==
    /\ fOut.done
    /\ Parse(fIn.a).isNil
    /\ ~Parse(fIn.b).isNil /\ Parse(fIn.b).pre # <<>>
    /\ ~Parse(fIn.c).isNil /\ Parse(fIn.c).pre # <<>>
    /\ Parse(fIn.b).parts = Parse(fIn.c).parts
    /\ fOut.ab < 0 /\ fOut.bc < 0 /\ fOut.ac < 0

(***************************************************************************)
(* Properties of the order of the change list.                             *)
(***************************************************************************)
\* the position of a mod name in string order
NameIndex(n) == CHOOSE i \in 1..Len(NameSeq) : NameSeq[i] = n

\* C31: the change list diff.Compute returns is sorted by mod name: of two
\* consecutive entries the name of the first is not greater than the name of
\* the second.
C31_ChangesSortedByName ==
    dOut.done =>
      \A i \in 1..(Len(dOut.changes) - 1) :
         NameIndex(dOut.changes[i].name) <= NameIndex(dOut.changes[i + 1].name)

\* Compute returned the change of a manifest mod followed by the removal of
\* an installed mod the manifest does not name
C31_ManifestChangeThenRemoval ==
    /\ dOut.done
    /\ \E i \in 1..(Len(dOut.changes) - 1) :
          /\ dOut.changes[i].name \in DOMAIN dIn.newMods
          /\ dOut.changes[i + 1].type = "Removed"
          /\ dOut.changes[i + 1].name \notin DOMAIN dIn.newMods

(***************************************************************************)
(* downloader.Run with its context: the worker pool, the retry loop of     *)
(* downloadFileWithRetry with its backoff select, and the cancellation of  *)
(* the context.  downloadFile is one step here: it ends with nil or with   *)
(* an error.                                                               *)
(***************************************************************************)
\* a job: how many requests for it fail before its server answers 200, and
\* whether the cache holds its file
RetryJob(fails, cached) == [fails |-> fails, cached |-> cached]
RetryJobLists ==
    UNION {[1..n -> {RetryJob(0, FALSE), RetryJob(1, FALSE), RetryJob(maxRetries, FALSE),
                     RetryJob(maxRetries, TRUE)}] :
             n \in 1..MaxJobs}

\* a goroutine of Run: its position, its job, the value of attempt, the error
\* it will report and the count completed.Add gave it
RetryWorker(pc, i, attempt) == [pc |-> pc, i |-> i, attempt |-> attempt, err |-> FALSE, n |-> 0]

InitRetry ==
    /\ \E downloads \in RetryJobLists, c \in 0..1 :
          /\ task = [downloads |-> downloads, concurrency |-> c,
                     total |-> Len(downloads),
                     work |-> [i \in 1..Len(downloads) |-> i],
                     results |-> [i \in 1..Len(downloads) |-> "none"],
                     completed |-> 0,
                     w |-> [k \in 1..Concurrency(c) |-> RetryWorker("recv", 0, 0)],
                     cancelled |-> FALSE,
                     returned |-> FALSE]
          /\ obs = [attempts |-> [i \in 1..Len(downloads) |-> 0],
                    okAt |-> [i \in 1..Len(downloads) |-> 0],
                    calls |-> <<>>]
    /\ fs = [pc |-> "pool"]
    /\ dIn = NoCall /\ dOut = NoCall /\ mIn = NoCall /\ mOut = NoCall
    /\ IdleRun
    /\ IdleCall

\* for i := range work
RetryReceive(k) ==
    /\ fs.pc = "pool"
    /\ k \in 1..Len(task.w)
    /\ task.w[k].pc = "recv"
    /\ \A j \in 1..(k - 1) : task.w[j].pc # "recv"
    /\ task.work # <<>>
    /\ task' = [task EXCEPT !.work = Tail(@),
                   !.w[k] = RetryWorker("call", Head(task.work), 0)]
    /\ UNCHANGED <<fs, obs, diffVars, mergeVars, runVars, callVars>>

\* a loop that ends with the first error
NextAttemptGivesUp(wk) == [RetryWorker("report", wk.i, wk.attempt + 1) EXCEPT !.err = TRUE]

\* downloadFile returned an error: the loop goes on to the next attempt and
\* its select, or ends with lastErr
NextAttempt(wk) ==
    IF wk.attempt + 1 < maxRetries
    THEN RetryWorker("backoff", wk.i, wk.attempt + 1)
    ELSE [RetryWorker("report", wk.i, wk.attempt + 1) EXCEPT !.err = TRUE]

\* lastErr = downloadFile(...): a cache hit is copied whatever the context, a
\* request made with a cancelled context fails, and so does one the server
\* does not answer yet
DownloadFileCall(k) ==
    /\ fs.pc = "pool"
    /\ k \in 1..Len(task.w)
    /\ task.w[k].pc = "call"
    /\ LET i == task.w[k].i
           dl == task.downloads[i]
           answered == task.w[k].attempt >= dl.fails
       IN \/ /\ dl.cached \/ (answered /\ ~task.cancelled)
             /\ task' = [task EXCEPT !.w[k] = RetryWorker("report", i, task.w[k].attempt)]
             /\ obs' = [obs EXCEPT !.attempts[i] = @ + 1,
                                   !.okAt[i] = IF @ = 0 THEN obs.attempts[i] + 1 ELSE @]
          \/ /\ ~dl.cached /\ (~answered \/ task.cancelled)
             /\ task' = [task EXCEPT !.w[k] = NextAttempt(@)]
             /\ obs' = [obs EXCEPT !.attempts[i] = @ + 1]
    /\ UNCHANGED <<fs, diffVars, mergeVars, runVars, callVars>>

\* a select that only waits for the delay
BackoffSleeps(cancelled, wk) == RetryWorker("call", wk.i, wk.attempt)

\* the select of the retry loop: ctx.Done() ends the loop with ctx.Err(),
\* time.After lets it make the next attempt
BackoffSelect(cancelled, wk) ==
    IF cancelled
    THEN [RetryWorker("report", wk.i, wk.attempt) EXCEPT !.err = TRUE]
    ELSE RetryWorker("call", wk.i, wk.attempt)

Backoff(k) ==
    /\ fs.pc = "pool"
    /\ k \in 1..Len(task.w)
    /\ task.w[k].pc = "backoff"
    /\ task' = [task EXCEPT !.w[k] = BackoffSelect(task.cancelled, @)]
    /\ UNCHANGED <<fs, obs, diffVars, mergeVars, runVars, callVars>>

\* results[i] = Result{...}; n := completed.Add(1)
RetryReport(k) ==
    /\ fs.pc = "pool"
    /\ k \in 1..Len(task.w)
    /\ task.w[k].pc = "report"
    /\ task' = [task EXCEPT !.results[task.w[k].i] = IF task.w[k].err THEN "err" ELSE "ok",
                   !.completed = AtomicAdd(@),
                   !.w[k].n = AtomicAdd(task.completed),
                   !.w[k].pc = "progress"]
    /\ UNCHANGED <<fs, obs, diffVars, mergeVars, runVars, callVars>>

\* onProgress(Progress{Completed: n, Total: total})
RetryOnProgress(k) ==
    /\ fs.pc = "pool"
    /\ k \in 1..Len(task.w)
    /\ task.w[k].pc = "progress"
    /\ obs' = [obs EXCEPT !.calls = Append(@, task.w[k].n)]
    /\ task' = [task EXCEPT !.w[k] = RetryWorker("recv", 0, 0)]
    /\ UNCHANGED <<fs, diffVars, mergeVars, runVars, callVars>>

\* every goroutine finds the closed channel empty and ends; wg.Wait(); return
RetryReturn ==
    /\ fs.pc = "pool"
    /\ ~task.returned
    /\ task.work = <<>>
    /\ \A k \in 1..Len(task.w) : task.w[k].pc = "recv"
    /\ task' = [task EXCEPT !.returned = TRUE,
                   !.w = [k \in 1..Len(task.w) |-> RetryWorker("exit", 0, 0)]]
    /\ UNCHANGED <<fs, obs, diffVars, mergeVars, runVars, callVars>>

\* the caller cancels the context
Cancel ==
    /\ fs.pc = "pool"
    /\ ~task.cancelled
    /\ ~task.returned
    /\ task' = [task EXCEPT !.cancelled = TRUE]
    /\ UNCHANGED <<fs, obs, diffVars, mergeVars, runVars, callVars>>

WorkerStep(k) ==
    \/ RetryReceive(k)
    \/ DownloadFileCall(k)
    \/ Backoff(k)
    \/ RetryReport(k)
    \/ RetryOnProgress(k)

NextRetry ==
    \/ \E k \in 1..DefaultConcurrency : WorkerStep(k)
    \/ RetryReturn
    \/ Cancel

SpecRetry == InitRetry /\ [][NextRetry]_vars

\* the scheduler runs every goroutine that can take a step, and Run returns
\* once wg.Wait() is through
SpecRetryLive ==
    /\ SpecRetry
    /\ \A k \in 1..DefaultConcurrency : WF_vars(WorkerStep(k))
    /\ WF_vars(RetryReturn)

(***************************************************************************)
(* resolveLatestVersions with its goroutines: the index pass, then the     *)
(* Maven pass and (with a token) the GitHub pass, each starting one        *)
(* goroutine per eligible change behind a semaphore of opts.Concurrency    *)
(* slots, collecting the results under a mutex in the order the fetches    *)
(* complete, and applying them after Wait.                                  *)
(***************************************************************************)
normalizeRunOptions(opts) ==
    IF opts.Concurrency < 1 THEN [opts EXCEPT !.Concurrency = 6] ELSE opts

\* both mods hosted by GTNewHorizons
LatestDb == [a |-> DbEntry("", <<Ver(2), Ver(1)>>), lwjgl3ify |-> DbEntry("", <<Ver(1)>>)]

ChangesOf(n) ==
    {Change(n, "Added", NoVer, 1, "BOTH"), Change(n, "Updated", 1, 2, "BOTH"),
     Change(n, "Unchanged", 1, 1, "BOTH"), Change(n, "Removed", 1, NoVer, "BOTH")}
LatestChanges == {<<ca, cl>> : ca \in ChangesOf("a"), cl \in ChangesOf("lwjgl3ify")}

LatestNets ==
    {[maven |-> [a |-> ma, lwjgl3ify |-> ml], github |-> [a |-> ga, lwjgl3ify |-> gl],
      release |-> [n \in Names |-> NoVer]] :
       ma \in {NoVer, 1, MaxVer + 1}, ml \in {NoVer, MaxVer + 1},
       ga \in {NoVer, MaxVer + 2}, gl \in {NoVer, MaxVer, MaxVer + 2}}

LatestExtras ==
    {<<>>, [lwjgl3ify |-> Download("lwjgl3ify", File("lwjgl3ify", 1, "url"), "url", FALSE)]}

\* a goroutine of a pass: blocked on the semaphore, fetching, or returned
Routine(pc, cur) == [pc |-> pc, cur |-> cur]
NoRoutines(changes) == [i \in 1..Len(changes) |-> Routine("none", NoVer)]

InitLatest ==
    /\ \E changes \in LatestChanges, net \in LatestNets, extras \in LatestExtras,
          c \in 0..2, token \in BOOLEAN :
          /\ task = [db |-> LatestDb, extraDownloads |-> extras, net |-> net,
                     opts |-> normalizeRunOptions([Concurrency |-> c, GithubToken |-> token]),
                     changes |-> changes, latestDownloads |-> <<>>,
                     pass |-> "index", g |-> NoRoutines(changes), results |-> <<>>]
          /\ obs = [given |-> changes, configured |-> c, before |-> <<>>, log |-> <<>>]
    /\ fs = [pc |-> "latest"]
    /\ dIn = NoCall /\ dOut = NoCall /\ mIn = NoCall /\ mOut = NoCall
    /\ IdleRun
    /\ IdleCall

\* the loop that starts the goroutines of a pass: go func(i, c.Name, c.NewVersion)
StartRoutines(db, changes, extraDownloads) ==
    [i \in 1..Len(changes) |->
       IF ~LatestSkips(changes[i], extraDownloads) /\ IsGTNH(db, changes[i].name)
       THEN Routine("sem", changes[i].new)
       ELSE Routine("none", NoVer)]

\* pass 1 and the start of the Maven goroutines
LatestIndexPass ==
    /\ fs.pc = "latest"
    /\ task.pass = "index"
    /\ LET p1 == [i \in 1..Len(task.changes) |->
                    LatestPass1(task.db, task.changes[i], task.extraDownloads)]
       IN /\ task' = [task EXCEPT !.changes = p1, !.pass = "maven",
                         !.g = StartRoutines(task.db, p1, task.extraDownloads)]
          /\ obs' = [obs EXCEPT !.before = p1]
    /\ UNCHANGED <<fs, diffVars, mergeVars, runVars, callVars>>

InFlight == {i \in 1..Len(task.g) : task.g[i].pc = "fetch"}

\* a semaphore that never blocks
SemAlwaysFree(inFlight, n) == TRUE

\* sem <- struct{}{} goes through while the channel has room
SemHasRoom(inFlight, n) == inFlight < n

Acquire(i) ==
    /\ fs.pc = "latest"
    /\ i \in 1..Len(task.g)
    /\ task.g[i].pc = "sem"
    /\ SemHasRoom(Cardinality(InFlight), task.opts.Concurrency)
    /\ task' = [task EXCEPT !.g[i].pc = "fetch"]
    /\ UNCHANGED <<fs, obs, diffVars, mergeVars, runVars, callVars>>

\* a goroutine that takes whatever version differs
FetchedDiffers(latestVer, currentVer) == latestVer # currentVer

\* semver.Compare(latestVer, currentVer) > 0
FetchedNewer(latestVer, currentVer) == latestVer > currentVer

\* the fetch returns: an error or a version that is not newer ends the
\* goroutine, a newer version is appended under the mutex; the deferred
\* receive frees the slot
Fetched(i) ==
    /\ fs.pc = "latest"
    /\ i \in 1..Len(task.g)
    /\ task.g[i].pc = "fetch"
    /\ LET answers == IF task.pass = "maven" THEN task.net.maven ELSE task.net.github
           latestVer == answers[task.changes[i].name]
       IN task' = [task EXCEPT
                      !.g[i].pc = "done",
                      !.results = IF latestVer # NoVer /\ FetchedNewer(latestVer, task.g[i].cur)
                                  THEN Append(@, [idx |-> i, version |-> latestVer])
                                  ELSE @]
    /\ UNCHANGED <<fs, obs, diffVars, mergeVars, runVars, callVars>>

\* a loop that applies the k-th result to the k-th change
ApplyByArrival(changes, results) ==
    [i \in 1..Len(changes) |->
       IF i <= Len(results) THEN Override(changes[i], results[i].version) ELSE changes[i]]

\* for _, r := range results { changes[r.idx].NewVersion = r.version ... }
RECURSIVE ApplyResults(_, _)
ApplyResults(changes, results) ==
    IF results = <<>> THEN changes
    ELSE ApplyResults([changes EXCEPT ![Head(results).idx] = Override(@, Head(results).version)],
                      Tail(results))

\* latestDownloads[changes[r.idx].Name] = resolvedExtra{...}
RECURSIVE RecordDownloads(_, _, _)
RecordDownloads(latestDownloads, changes, results) ==
    IF results = <<>> THEN latestDownloads
    ELSE LET n == changes[Head(results).idx].name
         IN RecordDownloads(MapPut(latestDownloads, n,
                                   Download(n, File(n, Head(results).version, "gh"), "gh", TRUE)),
                            changes, Tail(results))

Waited == \A i \in 1..Len(task.g) : task.g[i].pc \in {"none", "done"}

\* mavenWG.Wait(), the Maven results applied, and either the start of the
\* GitHub goroutines or, without a token, the final normalisation
LatestMavenApply ==
    /\ fs.pc = "latest"
    /\ task.pass = "maven"
    /\ Waited
    /\ LET p2 == ApplyResults(task.changes, task.results)
           entry == [pass |-> "maven", before |-> obs.before, after |-> p2,
                     results |-> task.results]
       IN IF task.opts.GithubToken
          THEN /\ task' = [task EXCEPT !.changes = p2, !.pass = "github", !.results = <<>>,
                              !.g = StartRoutines(task.db, p2, task.extraDownloads)]
               /\ obs' = [obs EXCEPT !.before = p2, !.log = Append(@, entry)]
          ELSE /\ task' = [task EXCEPT
                              !.changes = [i \in 1..Len(p2) |-> Normalize(p2[i])],
                              !.pass = "done", !.results = <<>>, !.g = NoRoutines(p2)]
               /\ obs' = [obs EXCEPT !.log = Append(@, entry)]
    /\ UNCHANGED <<fs, diffVars, mergeVars, runVars, callVars>>

\* wg.Wait(), the GitHub results applied and recorded, the final normalisation
LatestGithubApply ==
    /\ fs.pc = "latest"
    /\ task.pass = "github"
    /\ Waited
    /\ LET p3 == ApplyResults(task.changes, task.results)
       IN /\ task' = [task EXCEPT
                         !.changes = [i \in 1..Len(p3) |-> Normalize(p3[i])],
                         !.latestDownloads = RecordDownloads(@, task.changes, task.results),
                         !.pass = "done", !.results = <<>>, !.g = NoRoutines(p3)]
          /\ obs' = [obs EXCEPT !.log = Append(@, [pass |-> "github", before |-> obs.before,
                                                  after |-> p3, results |-> task.results])]
    /\ UNCHANGED <<fs, diffVars, mergeVars, runVars, callVars>>

NextLatest ==
    \/ LatestIndexPass
    \/ \E i \in 1..Len(NameSeq) : Acquire(i)
    \/ \E i \in 1..Len(NameSeq) : Fetched(i)
    \/ LatestMavenApply
    \/ LatestGithubApply

SpecLatest == InitLatest /\ [][NextLatest]_vars

\* the parallel parts of a run: the download pool and the resolver passes
SpecParallel == (InitRetry \/ InitLatest) /\ [][NextRetry \/ NextLatest]_vars

\* C32: once the context is cancelled a worker waiting in a backoff makes no
\* further attempt for its job, a run whose context is cancelled returns,
\* and when a run has returned every job has a result.
C32_CancelledRunTerminates ==
    /\ [][\A k \in 1..Len(task.w) :
             (task.cancelled /\ task.w[k].pc = "backoff")
                => /\ task'.w[k].pc # "call"
                   /\ obs'.attempts[task.w[k].i] = obs.attempts[task.w[k].i]]_vars
    /\ [](task.returned => \A i \in 1..task.total : task.results[i] # "none")
    /\ (task.cancelled ~> task.returned)

\* a cancelled run has returned, and a job of it failed before its third attempt
C32_BackoffCutShort ==
    /\ task.returned
    /\ task.cancelled
    /\ \E i \in 1..task.total :
          /\ task.results[i] = "err"
          /\ obs.attempts[i] \in 1..(maxRetries - 1)

\* C33: a job makes at most 3 attempts, its first successful attempt is its
\* last, and while the context is not cancelled a job reported as failed has
\* made 3 attempts that all failed.
C33_AtMostThreeAttempts ==
    \A i \in 1..task.total :
       /\ obs.attempts[i] <= maxRetries
       /\ obs.okAt[i] # 0 => obs.attempts[i] = obs.okAt[i]
       /\ (task.results[i] = "err" /\ ~task.cancelled)
             => (obs.attempts[i] = maxRetries /\ obs.okAt[i] = 0)
       /\ task.results[i] = "ok" => obs.okAt[i] # 0

\* without cancellation one job failed three times and another succeeded at
\* its second attempt
C33_ThirdFailureAndSecondSuccess ==
    /\ task.returned
    /\ ~task.cancelled
    /\ \E i, j \in 1..task.total :
          /\ task.results[i] = "err" /\ obs.attempts[i] = maxRetries
          /\ task.results[j] = "ok" /\ obs.okAt[j] = 2

\* C35: the progress callback is never invoked with a smaller completed
\* count after it has been invoked with a larger one.
C35_ProgressCountsNeverDecrease ==
    \A a, b \in 1..Len(obs.calls) : a < b => obs.calls[a] <= obs.calls[b]

\* two workers finished their jobs, and the one that counted second called
\* the callback first
C35_SecondFinisherCallsFirst ==
    /\ task.returned
    /\ Len(task.w) >= 2
    /\ obs.calls = <<2, 1>>

\* C34: the Maven pass and the GitHub pass leave a change's target version
\* as it was when the pass started or replace it by a strictly greater one.
C34_PassesOnlyRaiseTargets ==
    fs.pc = "latest" =>
      \A e \in 1..Len(obs.log) : \A i \in 1..Len(obs.log[e].after) :
         \/ obs.log[e].after[i].new = obs.log[e].before[i].new
         \/ obs.log[e].after[i].new > obs.log[e].before[i].new

\* Maven answered an older version for a, which kept its target, and a
\* newer one for lwjgl3ify, which took it; the GitHub pass then raised a
C34_OlderAnswerIgnoredNewerTaken ==
    /\ fs.pc = "latest"
    /\ task.pass = "done"
    /\ Len(obs.log) = 2
    /\ task.net.maven["a"] # NoVer
    /\ task.net.maven["a"] < obs.log[1].before[1].new
    /\ obs.log[1].after[1].new = obs.log[1].before[1].new
    /\ obs.log[1].after[2].new > obs.log[1].before[2].new
    /\ obs.log[2].after[1].new > obs.log[2].before[1].new

\* the download goroutines that hold a job
InProgress ==
    {k \in 1..Len(task.w) : task.w[k].pc \in {"call", "backoff", "report", "progress"}}

\* C36: with N the configured concurrency, or 6 when that is below 1, at
\* most N download jobs are in progress and at most N metadata fetches of a
\* resolver pass are in flight.
C36_ParallelWorkBounded ==
    /\ fs.pc = "pool" =>
          Cardinality(InProgress)
             <= (IF task.concurrency < 1 THEN DefaultConcurrency ELSE task.concurrency)
    /\ fs.pc = "latest" =>
          Cardinality(InFlight)
             <= (IF obs.configured < 1 THEN DefaultConcurrency ELSE obs.configured)

\* every slot of the semaphore is taken and a goroutine waits for one
C36_GoroutineWaitsForSlot ==
    /\ fs.pc = "latest"
    /\ Cardinality(InFlight) = task.opts.Concurrency
    /\ \E i \in 1..Len(task.g) : task.g[i].pc = "sem"

\* C37: a pass collects at most one result per change, and whatever order the
\* fetches complete in, the resolver ends with the kinds, target versions and
\* download overrides that the answers of the index, Maven and GitHub fix.
C37_OutcomeIndependentOfCompletionOrder ==
    fs.pc = "latest" =>
      /\ \A x, y \in 1..Len(task.results) :
            x # y => task.results[x].idx # task.results[y].idx
      /\ task.pass = "done" =>
            LET fixed == resolveLatestVersions(task.db, obs.given, task.extraDownloads,
                                               task.opts.GithubToken, task.net)
            IN /\ task.changes = fixed.changes
               /\ task.latestDownloads = fixed.latestDownloads

\* in both passes the fetch for the second change completed first, and both
\* results were applied
C37_FetchesCompletedInReverse ==
    /\ fs.pc = "latest"
    /\ task.pass = "done"
    /\ Len(obs.log) = 2
    /\ \A e \in 1..2 :
          /\ Len(obs.log[e].results) = 2
          /\ obs.log[e].results[1].idx = 2
          /\ obs.log[e].results[2].idx = 1

\* the Added and Updated changes of the run all have a download
AllResolved ==
    \A i \in 1..Len(proc.changes) :
       proc.changes[i].type \in {"Added", "Updated"}
          => resolveModDownload(world.db, proc.changes[i].name, proc.changes[i].new,
                                world.opts.GithubToken, proc.extraDownloads,
                                proc.latestDownloads).ok

\* C38: the mods directory, the config files and the state file are as the
\* run found them unless every Added and Updated change has a download, and
\* a run that cannot resolve one fails and leaves them so.
C38_NothingTouchedBeforeResolution ==
    proc # NoRun =>
      /\ disk # hist.pre => (proc.pc \notin {"extras", "computed"} /\ AllResolved)
      /\ hist.failedAt = "resolve" => (disk = hist.pre /\ proc.ret = "error")

\* a run failed for an unresolved download while another change of it names
\* an installed jar that removeOutdatedJars would have deleted
C38_FailedWithJarStillInstalled ==
    /\ proc # NoRun
    /\ hist.failedAt = "resolve"
    /\ proc.pc = "failed"
    /\ \E i \in 1..Len(proc.changes) :
          RemovesJar(proc.changes[i], proc.state.mods, disk.modsDir)

\* the download resolveModDownload gives for the i-th change of the run
DownloadOf(i) ==
    resolveModDownload(world.db, proc.changes[i].name, proc.changes[i].new,
                       world.opts.GithubToken, proc.extraDownloads, proc.latestDownloads)

\* C39: once the downloads are resolved, the archive of every Added or
\* Updated change is an archive of the change's mod in its new version, and
\* so is the filename the saved state records for it.
C39_ArchiveOfNewVersion ==
    (/\ proc # NoRun
     /\ \/ proc.pc \in {"resolved", "dir", "removed", "downloaded", "lwjgl", "merged"}
        \/ proc.pc = "done" /\ hist.applied)
      => \A i \in 1..Len(proc.changes) :
            (proc.changes[i].type \in {"Added", "Updated"} /\ DownloadOf(i).ok)
               => /\ DownloadOf(i).dl.filename.n = proc.changes[i].name
                  /\ DownloadOf(i).dl.filename.v = proc.changes[i].new
                  /\ (proc.pc = "done" /\ proc.changes[i].name \in DOMAIN proc.state.mods)
                        => proc.state.mods[proc.changes[i].name].filename.v
                              = proc.changes[i].new

\* a run saved its state after a change of a mod that is both an extra and a
\* manifest mod, and the extra resolved to another version than the manifest's
C39_ExtraAlsoInManifest ==
    /\ proc # NoRun
    /\ proc.pc = "done"
    /\ hist.applied
    /\ \E i \in 1..Len(proc.changes) :
          /\ proc.changes[i].type \in {"Added", "Updated"}
          /\ proc.changes[i].name \in DOMAIN proc.extraDownloads
          /\ proc.changes[i].name \in DOMAIN AllMods(world.manifest)
          /\ proc.changes[i].name \notin proc.state.excludeMods
          /\ proc.changes[i].new = AllMods(world.manifest)[proc.changes[i].name].version
          /\ DownloadOf(i).dl.filename.v # proc.changes[i].new
          /\ proc.state.mods[proc.changes[i].name].filename.v # proc.changes[i].new

\* downloadFile: if dl.IsGitHubAPI && githubToken != "" { ... Authorization }
AttachesToken(dl, token) == dl.api /\ token

\* C40: a download job is flagged as authenticated, and the token attached
\* to its request, only when its URL is the API URL of a release asset.
C40_TokenOnlyToApiUrls ==
    proc # NoRun =>
      \A i \in 1..Len(proc.downloads) :
         (proc.downloads[i].api \/ AttachesToken(proc.downloads[i], world.opts.GithubToken))
            => proc.downloads[i].via \in {"api", "gh"}

\* with a token, a run resolved the download of an index entry hosted
\* elsewhere, and its job carries the flag
C40_FlaggedJobForOtherHost ==
    /\ proc # NoRun
    /\ proc.pc = "resolved"
    /\ world.opts.GithubToken
    /\ \E i \in 1..Len(proc.downloads) :
          /\ ~IsAPIURL(world.db, proc.downloads[i].modName)
          /\ proc.downloads[i].via = "elsewhere"
          /\ AttachesToken(proc.downloads[i], world.opts.GithubToken)

====
